---- MODULE Spec2Model ----
(***************************************************************************)
(* Columnar array runtime of rayexec_execution: the Array entity in both   *)
(* of its layouts (the legacy selection2 / validity2 / data2 fields and    *)
(* the refactored `next` buffer with dictionary views) and the scalar      *)
(* arithmetic kernels that run over arrays.                                *)
(*                                                                         *)
(* Rust indices are 0-based; sequences here are 1-based, so At(s, i) reads *)
(* slot i of a Rust slice.                                                 *)
(***************************************************************************)
EXTENDS Naturals, Integers, Sequences, FiniteSets, TLC

VARIABLES arr, res, ka, kb, kplan, kout, parser, scope, bind

vars == <<arr, res, ka, kb, kplan, kout, parser, scope, bind>>
\* The SQL front end: the parser, the scope under resolution and the
\* binder's data.
sqlVars == <<parser, scope, bind>>
\* What the kernel actions leave alone, and what the array actions do.
arrayVars == <<arr, res, sqlVars>>
kernelVars == <<ka, kb, kplan, kout, sqlVars>>
\* What the front end leaves alone.
runtimeVars == <<arr, res, ka, kb, kplan, kout>>

(* ------------------------------ bounds --------------------------------- *)
\* Longest physical storage built by a constructor.
MaxLen == 2
\* Longest selection handed to select_mut2 / select.
MaxSel == 2
\* Longest selection handed to put_selection.
MaxPut == 1

\* Slot payloads.  The array operations only copy payloads and compare them
\* for equality, so two of them are enough: T::default() (0) and one other.
Vals == {0, 1}
\* Row indices used in selections and as read positions: every row of the
\* longest storage and one index past its end.
Idxs == 0..MaxLen

(* ------------------------------ helpers -------------------------------- *)
At(s, i) == s[i + 1]

SeqsUpTo(S, n) == UNION {[1..k -> S] : k \in 0..n}

\* Option<T>: None carries a filler payload so both variants compare.
None == [some |-> FALSE, v |-> <<>>]
Some(x) == [some |-> TRUE, v |-> x]

OptVals == {[some |-> FALSE, v |-> 0]} \cup {[some |-> TRUE, v |-> x] : x \in Vals}

\* ScalarValue: the variant tag and its payload.
Scalar(tag, v) == [tag |-> tag, v |-> v]
ScalarNull == Scalar("Null", 0)

\* Result<T>, with a third outcome for a Rust panic (unwinding abort).
Ok(x) == [kind |-> "Ok", val |-> x]
Err(msg) == [kind |-> "Err", val |-> Scalar(msg, 0)]
Panic(msg) == [kind |-> "Panic", val |-> Scalar(msg, 0)]
OkBool(b) == Ok(Scalar("bool", IF b THEN 1 ELSE 0))

(* --------------------------- SelectionVector --------------------------- *)
\* SelectionVector::num_rows
num_rows(sel) == Len(sel)

\* SelectionVector::get_opt
get_opt(sel, idx) == IF idx < Len(sel) THEN Some(At(sel, idx)) ELSE [some |-> FALSE, v |-> 0]

\* SelectionVector::select: the composed selection s3[i] = s1[s2[i]].
\* Defined when every entry of s2 addresses a row of s1.
sel_in_bounds(s1, s2) == \A k \in 1..Len(s2) : s2[k] < Len(s1)

sel_select(s1, s2) == [k \in 1..Len(s2) |-> At(s1, s2[k])]

(* -------------------------------- Array -------------------------------- *)
\* ArrayData2: the storage variant and the slots it holds.
ArrayData2(variant, vals) == [variant |-> variant, vals |-> vals]

\* ArrayData2::len
data2_len(d) == Len(d.vals)

\* ArrayBuffer: the physical type, the primary buffer and the secondary
\* buffer.  A secondary buffer is None, a StringViewHeap, a List child or a
\* Dictionary; a DictionaryBuffer holds the validity and the buffer of the
\* array it was taken from.
NoBuffer == [ptype |-> "UntypedNull", primary |-> <<>>, heap |-> "None"]

NoSecondary == [kind |-> "None", validity |-> <<>>, buffer |-> NoBuffer]

ArrayBuffer(ptype, primary, secondary) ==
  [ptype |-> ptype, primary |-> primary, secondary |-> secondary]

\* Array.next: None for the arrays of the legacy constructors.
NoNext == [some |-> FALSE,
           v |-> [validity |-> <<>>,
                  data |-> ArrayBuffer("UntypedNull", <<>>, NoSecondary)]]

\* Element types T with `impl FromIterator<T> for Array`: the DataType and
\* the ArrayData2 variant the impl installs.
FromIterTypes ==
  {"Int8", "Int16", "Int32", "Int64", "Int128",
   "UInt8", "UInt16", "UInt32", "UInt64", "UInt128",
   "Float16", "Float32", "Float64", "Boolean", "Utf8"}

\* One element type of each storage class: a primitive slice, a primitive
\* slice of 128-bit width, a bitmap, and variable-length views.
SelTypes == {"Int32", "Int128", "Boolean", "Utf8"}

from_iter_variant(t) == IF t = "Utf8" THEN "Binary" ELSE t

\* impl FromIterator<T> for Array (primitive macro, bool, String, &str).
from_iter(t, vals) ==
  [datatype |-> t,
   selection2 |-> None,
   validity2 |-> None,
   data2 |-> ArrayData2(from_iter_variant(t), vals),
   next |-> NoNext]

\* impl FromIterator<Option<F>> for Array: None slots hold F::default()
\* (0) and clear their validity bit.
from_iter_opt(t, ovals) ==
  LET new_vals == [k \in 1..Len(ovals) |-> IF ovals[k].some THEN ovals[k].v ELSE 0]
      validity == [k \in 1..Len(ovals) |-> ovals[k].some]
  IN [from_iter(t, new_vals) EXCEPT !.validity2 = Some(validity)]

\* Array::selection_vector / Array::has_selection
has_selection(a) == a.selection2.some

\* Array::logical_len
logical_len(a) ==
  IF a.selection2.some THEN num_rows(a.selection2.v) ELSE data2_len(a.data2)

\* Bitmap::value, which asserts idx < len.
bitmap_in_bounds(bm, idx) == idx < Len(bm)

\* Array::put_selection: install the selection as given, unvalidated.
put_selection(a, selection) == [a EXCEPT !.selection2 = Some(selection)]

\* select_mut2 without the composition: the given selection replaces the
\* existing one.
select_mut2_no_compose(a, selection) == [a EXCEPT !.selection2 = Some(selection)]

\* Array::select_mut2: compose with the existing selection, or install the
\* given one when there is none.
select_mut2(a, selection) ==
  IF a.selection2.some
    THEN [a EXCEPT !.selection2 = Some(sel_select(a.selection2.v, selection))]
    ELSE [a EXCEPT !.selection2 = Some(selection)]

\* The storage variant each DataType arm of physical_scalar accepts.
physical_scalar_variant(dt) ==
  CASE dt = "Null" -> "UntypedNull"
    [] dt = "Int128" -> "Int64"
    [] dt = "UInt128" -> "UInt64"
    [] dt = "Decimal64" -> "Int64"
    [] dt = "Decimal128" -> "Int128"
    [] dt = "Date32" -> "Int32"
    [] dt = "Date64" -> "Int64"
    [] dt = "Timestamp" -> "Int64"
    [] dt \in {"Utf8", "Binary"} -> "Binary"
    [] OTHER -> dt

\* The ScalarValue variant each arm builds: the explicit constructors name
\* the DataType's variant, the `.into()` arms the storage element's.
physical_scalar_tag(dt) ==
  CASE dt \in {"Decimal64", "Decimal128", "Date32", "Date64", "Timestamp",
               "Utf8", "Binary", "List", "Null"} -> dt
    [] OTHER -> physical_scalar_variant(dt)

\* Array::physical_scalar: the raw slot, ignoring validity and selection.
physical_scalar(a, idx) ==
  LET dt == a.datatype
      d == a.data2
  IN IF dt = "Struct" THEN Err("not implemented: get value: struct")
     ELSE IF d.variant # physical_scalar_variant(dt)
       THEN Err("Array data not valid for data type")
     ELSE IF dt = "Null" THEN Ok(ScalarNull)
     ELSE IF idx >= Len(d.vals)
       THEN IF dt \in {"Utf8", "Binary"} THEN Err("missing data")
            ELSE IF dt = "List" THEN Err("Out of bounds")
            ELSE Panic("index out of bounds")
     ELSE Ok(Scalar(physical_scalar_tag(dt), At(d.vals, idx)))

\* Array::logical_value: the value at a logical index, through the
\* selection and the validity.
logical_value(a, idx) ==
  LET o == IF a.selection2.some THEN get_opt(a.selection2.v, idx)
           ELSE [some |-> TRUE, v |-> idx]
  IN IF ~o.some THEN Err("Logical index out of bounds")
     ELSE IF a.validity2.some /\ ~bitmap_in_bounds(a.validity2.v, o.v)
       THEN Panic("bitmap index out of bounds")
     ELSE IF a.validity2.some /\ ~At(a.validity2.v, o.v) THEN Ok(ScalarNull)
     ELSE physical_scalar(a, o.v)

\* Array::is_valid: None past the logical length, else the validity bit of
\* the physical row.
is_valid(a, idx) ==
  IF idx >= logical_len(a) THEN [kind |-> "None", val |-> Scalar("bool", 0)]
  ELSE LET p == IF a.selection2.some THEN At(a.selection2.v, idx) ELSE idx
       IN IF ~a.validity2.some THEN [kind |-> "Some", val |-> Scalar("bool", 1)]
          ELSE IF ~bitmap_in_bounds(a.validity2.v, p)
            THEN Panic("bitmap index out of bounds")
          ELSE [kind |-> "Some",
                val |-> Scalar("bool", IF At(a.validity2.v, p) THEN 1 ELSE 0)]

(* ----------------------------- next layout ---------------------------- *)
\* Validity::new_all_valid / Validity::len / Validity::set_invalid
new_all_valid(n) == [k \in 1..n |-> TRUE]
validity_len(v) == Len(v)
set_invalid(v, idx) == [v EXCEPT ![idx + 1] = FALSE]

\* ArrayBuffer::with_primary_capacity::<P>: a zeroed primary buffer of
\* `capacity` slots and no secondary buffer.
with_primary_capacity(ptype, capacity) ==
  ArrayBuffer(ptype, [k \in 1..capacity |-> 0], NoSecondary)

\* ArrayBuffer::primary_capacity
primary_capacity(data) == Len(data.primary)

\* DataType::physical_type: the one physical type of each logical type.
\* Decimals, dates and timestamps are stored as integers; every other
\* datatype is stored under its own name.
datatype_physical_type(dt) ==
  CASE dt = "Null" -> "UntypedNull"
    [] dt = "Decimal64" -> "Int64"
    [] dt = "Decimal128" -> "Int128"
    [] dt = "Date32" -> "Int32"
    [] dt = "Date64" -> "Int64"
    [] dt = "Timestamp" -> "Int64"
    [] OTHER -> dt

\* The physical types array_buffer_for_datatype has an arm for; any other
\* falls to `other => not_implemented!`.
ArrayBufferTypes ==
  {"UntypedNull", "Boolean", "Int8", "Int16", "Int32", "Int64", "Int128",
   "UInt8", "UInt16", "UInt32", "UInt64", "UInt128",
   "Float16", "Float32", "Float64", "Interval", "Utf8", "List"}

\* array_buffer_for_datatype returns a buffer.
array_buffer_for_datatype_ok(dt) == datatype_physical_type(dt) \in ArrayBufferTypes

\* The element type of the modelled List datatype.
ListInner == "Int32"

\* array_buffer_for_datatype: the primary buffer of the datatype's physical
\* type, with a string heap for Utf8 and, for List, the buffer and validity
\* of a child array of the same capacity.
array_buffer_for_datatype(dt, capacity) ==
  IF datatype_physical_type(dt) = "Utf8"
    THEN [with_primary_capacity("Utf8", capacity)
            EXCEPT !.secondary.kind = "StringViewHeap"]
  ELSE IF datatype_physical_type(dt) = "List"
    THEN [with_primary_capacity("List", capacity)
            EXCEPT !.secondary =
                     [kind |-> "List",
                      validity |-> new_all_valid(capacity),
                      buffer |-> [ptype |-> datatype_physical_type(ListInner),
                                  primary |-> [k \in 1..capacity |-> 0],
                                  heap |-> "None"]]]
  ELSE with_primary_capacity(datatype_physical_type(dt), capacity)

\* Array::try_new: the legacy fields hold no selection, no validity and an
\* UntypedNull storage of `capacity` rows.
try_new(dt, capacity) ==
  [datatype |-> dt,
   selection2 |-> None,
   validity2 |-> None,
   data2 |-> ArrayData2("UntypedNull", [k \in 1..capacity |-> 0]),
   next |-> [some |-> TRUE,
             v |-> [validity |-> new_all_valid(capacity),
                    data |-> array_buffer_for_datatype(dt, capacity)]]]

\* TryFromExactSizeIterator::try_from_iter for a primitive element type:
\* try_new, then the values written into the primary buffer.
try_from_iter(t, vals) ==
  [try_new(t, Len(vals)) EXCEPT !.next.v.data.primary = vals]

\* Array::capacity
capacity(a) ==
  IF a.next.some THEN primary_capacity(a.next.v.data)
  ELSE IF a.selection2.some THEN num_rows(a.selection2.v)
  ELSE data2_len(a.data2)

\* Array::is_dictionary (unwraps `next`).
is_dictionary(a) == a.next.v.data.ptype = "Dictionary"

\* Array::put_validity, when the length check passes.
put_validity_ok(a, v) == validity_len(v) = primary_capacity(a.next.v.data)

\* put_validity installing the validity whatever its length.
put_validity_unchecked(a, v) == [a EXCEPT !.next.v.validity = v]

\* Array::put_validity: the validity is installed when its length is the
\* primary capacity, else the array is left as it was.
put_validity(a, v) ==
  IF put_validity_ok(a, v) THEN [a EXCEPT !.next.v.validity = v] ELSE a

\* TryFromExactSizeIterator<Option<V>>::try_from_iter: the values with the
\* default in the None slots, then put_validity.
try_from_iter_opt(t, ovals) ==
  LET vals == [k \in 1..Len(ovals) |-> IF ovals[k].some THEN ovals[k].v ELSE 0]
      v == [k \in 1..Len(ovals) |-> ovals[k].some]
  IN put_validity(try_from_iter(t, vals), v)

\* Array::select on a dictionary indexes the old index buffer with every
\* entry of the selection: an entry past its end panics.
select_panics(a, sel) ==
  is_dictionary(a) /\ \E k \in 1..Len(sel) : sel[k] >= Len(a.next.v.data.primary)

\* select storing the selection itself as the index buffer of a dictionary,
\* without reading it through the old index buffer.
select_no_compose(a, sel) ==
  LET d == a.next.v.data
  IN IF is_dictionary(a)
       THEN [a EXCEPT !.next.v.data = ArrayBuffer("Dictionary", sel, d.secondary)]
       ELSE [a EXCEPT !.next.v.validity = new_all_valid(Len(sel)),
                      !.next.v.data =
                         ArrayBuffer("Dictionary", sel,
                                     [kind |-> "Dictionary",
                                      validity |-> a.next.v.validity,
                                      buffer |-> [ptype |-> d.ptype,
                                                  primary |-> d.primary,
                                                  heap |-> d.secondary.kind]])]

\* Array::select.  On a dictionary the new index buffer is the old one read
\* through the selection and the dictionary buffer moves over; the validity
\* is not touched.  Otherwise the index buffer is the selection, the
\* validity is all-valid of its length, and the previous buffer and
\* validity become the dictionary.
select(a, sel) ==
  LET d == a.next.v.data
  IN IF is_dictionary(a)
       THEN [a EXCEPT !.next.v.data =
                         ArrayBuffer("Dictionary",
                                     [k \in 1..Len(sel) |-> At(d.primary, sel[k])],
                                     d.secondary)]
       ELSE [a EXCEPT !.next.v.validity = new_all_valid(Len(sel)),
                      !.next.v.data =
                         ArrayBuffer("Dictionary", sel,
                                     [kind |-> "Dictionary",
                                      validity |-> a.next.v.validity,
                                      buffer |-> [ptype |-> d.ptype,
                                                  primary |-> d.primary,
                                                  heap |-> d.secondary.kind]])]

(* ----------------------- scalar_value_logically_eq --------------------- *)
\* ScalarValue variants.
ScalarTags ==
  {"Null", "Boolean", "Float16", "Float32", "Float64",
   "Int8", "Int16", "Int32", "Int64", "Int128",
   "UInt8", "UInt16", "UInt32", "UInt64", "UInt128",
   "Decimal64", "Decimal128", "Date32", "Date64", "Timestamp",
   "Interval", "Utf8", "Binary", "Struct", "List"}

\* The physical type each arm of the match reads the array with; the
\* variants without an arm fall to `other => not_implemented!`.
scalar_eq_physical(tag) ==
  CASE tag = "Null" -> "Any"
    [] tag \in {"Boolean", "Int8", "Int16", "Int32", "Int64", "Int128",
                "UInt8", "UInt16", "UInt32", "UInt64", "UInt128",
                "Float32", "Float64", "Interval", "Utf8", "Binary"} -> tag
    [] tag = "Date32" -> "Int32"
    [] tag \in {"Date64", "Timestamp", "Decimal64"} -> "Int64"
    [] tag = "Decimal128" -> "Int128"
    [] OTHER -> "NotImplemented"

\* PhysicalStorage::get_storage: the typed view of the storage, refused when
\* the storage variant is not the physical type's.
storage_matches(phys, variant) ==
  \/ phys = "Any"
  \/ phys \in {"Utf8", "Binary"} /\ variant = "Binary"
  \/ phys \notin {"Utf8", "Binary"} /\ phys = variant

\* UnaryExecutor::value_at2::<S>(array, row): Ok(None) for a NULL cell, else
\* Ok(Some(slot)), resolving the selection; a typed error when the storage
\* is not S's.
value_at2(a, phys, row) ==
  LET p == IF a.selection2.some THEN At(a.selection2.v, row) ELSE row
  IN IF ~storage_matches(phys, a.data2.variant)
       THEN [kind |-> "Err", some |-> FALSE, v |-> 0]
     ELSE IF p >= data2_len(a.data2)
               \/ (a.validity2.some /\ ~bitmap_in_bounds(a.validity2.v, p))
       THEN [kind |-> "Panic", some |-> FALSE, v |-> 0]
     ELSE IF a.validity2.some /\ ~At(a.validity2.v, p)
       THEN [kind |-> "Ok", some |-> FALSE, v |-> 0]
     ELSE [kind |-> "Ok", some |-> TRUE, v |-> At(a.data2.vals, p)]

\* scalar_value_logically_eq with a NULL cell matching every scalar.
scalar_value_logically_eq_null_matches(a, scalar, row) ==
  IF row >= logical_len(a) THEN Err("Row out of bounds")
  ELSE IF scalar_eq_physical(scalar.tag) = "NotImplemented"
    THEN Err("not implemented: scalar value eq")
  ELSE LET r == value_at2(a, scalar_eq_physical(scalar.tag), row)
       IN IF r.kind = "Err" THEN Err("physical type mismatch")
          ELSE IF r.kind = "Panic" THEN Panic("index out of bounds")
          ELSE IF scalar.tag = "Null" THEN OkBool(~r.some)
          ELSE OkBool(~r.some \/ r.v = scalar.v)

\* Array::scalar_value_logically_eq
scalar_value_logically_eq(a, scalar, row) ==
  IF row >= logical_len(a) THEN Err("Row out of bounds")
  ELSE IF scalar_eq_physical(scalar.tag) = "NotImplemented"
    THEN Err("not implemented: scalar value eq")
  ELSE LET r == value_at2(a, scalar_eq_physical(scalar.tag), row)
       IN IF r.kind = "Err" THEN Err("physical type mismatch")
          ELSE IF r.kind = "Panic" THEN Panic("index out of bounds")
          ELSE IF scalar.tag = "Null" THEN OkBool(~r.some)
          ELSE OkBool(r.some /\ r.v = scalar.v)

(* ------------------------------- state --------------------------------- *)
\* `arr` is the array under test.  `res` is the call in flight: the
\* operation last applied to `arr`, its inputs, the array as it was before
\* the call, and what the call returned.  A call starts from an idle array
\* and Return hands its result to the caller.
Res(op, sel, idx, scalar, ovals, before, out) ==
  [op |-> op, sel |-> sel, idx |-> idx, scalar |-> scalar, ovals |-> ovals,
   validity |-> <<>>, datatype |-> "Null", capacity |-> 0,
   before |-> before, out |-> out]

Unit == Ok(Scalar("unit", 0))

Unbuilt == [from_iter("Null", <<>>) EXCEPT !.data2.variant = "UntypedNull"]

Call(op, before, out) == Res(op, <<>>, 0, ScalarNull, <<>>, before, out)

\* No function planned, and no result of an execution.
NoPlan ==
  [stage |-> "idle", fn |-> "none", ok |-> FALSE, datatype |-> "Null",
   inputs |-> <<"Null", "Null">>, build |-> "release"]

NoOut == [kind |-> "none", msg |-> "", out |-> Unbuilt]

KernelIdle ==
  /\ ka = Unbuilt
  /\ kb = Unbuilt
  /\ kplan = NoPlan
  /\ kout = NoOut

\* No parser, no scope and no binder exist.
SqlIdle ==
  /\ parser = [stage |-> "new"]
  /\ scope = [stage |-> "new"]
  /\ bind = [stage |-> "new"]

Init ==
  /\ arr = Unbuilt
  /\ res = Call("new", Unbuilt, Unit)
  /\ KernelIdle
  /\ SqlIdle

\* The caller takes the result of the call; the array is idle again.
Return ==
  /\ res.op \notin {"new", "idle"}
  /\ res' = Call("idle", Unbuilt, Unit)
  /\ UNCHANGED arr
  /\ UNCHANGED kernelVars

(* ------------------------- legacy-layout actions ------------------------ *)
\* Array::from_iter over plain values of an element type in `types`.
FromIterIn(types) ==
  \E t \in types, vals \in SeqsUpTo(Vals, MaxLen) :
    /\ res.op = "new"
    /\ arr' = from_iter(t, vals)
    /\ res' = Call("from_iter", Unbuilt, Unit)
    /\ UNCHANGED kernelVars

\* Array::from_iter over Option values of an element type in `types`.
FromIterOptIn(types) ==
  \E t \in types, ovals \in SeqsUpTo(OptVals, MaxLen) :
    /\ res.op = "new"
    /\ arr' = from_iter_opt(t, ovals)
    /\ res' = [Call("from_iter_opt", Unbuilt, Unit) EXCEPT !.ovals = ovals]
    /\ UNCHANGED kernelVars

FromIter == FromIterIn(SelTypes)
FromIterOpt == FromIterOptIn(SelTypes)
FromIterAll == FromIterIn(FromIterTypes)
FromIterOptAll == FromIterOptIn(FromIterTypes)

\* Array::put_selection
PutSelection ==
  \E s \in SeqsUpTo(Idxs, MaxPut) :
    /\ res.op = "idle"
    /\ arr' = put_selection(arr, s)
    /\ res' = [Call("put_selection", arr, Unit) EXCEPT !.sel = s]
    /\ UNCHANGED kernelVars

\* Array::select_mut2.  SelectionVector::select indexes the existing
\* selection, so an entry past its end panics before anything is stored.
SelectMut2 ==
  \E s \in SeqsUpTo(Idxs, MaxSel) :
    /\ res.op = "idle"
    /\ IF arr.selection2.some /\ ~sel_in_bounds(arr.selection2.v, s)
         THEN /\ arr' = arr
              /\ res' = [Call("select_mut2", arr, Panic("index out of bounds"))
                           EXCEPT !.sel = s]
         ELSE /\ arr' = select_mut2(arr, s)
              /\ res' = [Call("select_mut2", arr, Unit) EXCEPT !.sel = s]
    /\ UNCHANGED kernelVars

\* Array::logical_value
LogicalValue ==
  \E idx \in Idxs :
    /\ res.op = "idle"
    /\ res' = [Call("logical_value", arr, logical_value(arr, idx))
                 EXCEPT !.idx = idx]
    /\ UNCHANGED arr
    /\ UNCHANGED kernelVars

\* The scalars compared against an array: NULL, every variant whose arm
\* reads the array's storage, the variants without an arm, and one variant
\* of another physical type.
EqScalarTags(a) ==
  {"Null", "Float16", "Struct", "List"}
    \cup {t \in ScalarTags : storage_matches(scalar_eq_physical(t), a.data2.variant)}
    \cup {IF a.data2.variant = "Int32" THEN "Int64" ELSE "Int32"}

\* Array::scalar_value_logically_eq
ScalarEq ==
  \E tag \in EqScalarTags(arr), v \in Vals, row \in Idxs :
    /\ res.op = "idle"
    /\ tag = "Null" => v = 0
    /\ res' = [Call("scalar_value_logically_eq", arr,
                     scalar_value_logically_eq(arr, Scalar(tag, v), row))
                 EXCEPT !.idx = row, !.scalar = Scalar(tag, v)]
    /\ UNCHANGED arr
    /\ UNCHANGED kernelVars

(* -------------------------- next-layout actions ------------------------- *)
\* Datatypes of the arrays built in the next layout: a primitive and one
\* with a string heap.
NextTypes == {"Int32", "Utf8"}

\* Validities handed to put_validity: all-valid of every length, and the
\* same with the first row invalid.
ValidityInputs ==
  {new_all_valid(n) : n \in 0..MaxLen}
    \cup {set_invalid(new_all_valid(n), 0) : n \in 1..MaxLen}

\* Array::try_new
TryNew ==
  \E dt \in NextTypes, cap \in 0..MaxLen :
    /\ res.op = "new"
    /\ arr' = try_new(dt, cap)
    /\ res' = Call("try_new", Unbuilt, Unit)
    /\ UNCHANGED kernelVars

\* Array::try_from_iter over plain values.
TryFromIter ==
  \E vals \in SeqsUpTo(Vals, MaxLen) :
    /\ res.op = "new"
    /\ arr' = try_from_iter("Int32", vals)
    /\ res' = Call("try_from_iter", Unbuilt, Unit)
    /\ UNCHANGED kernelVars

\* Array::try_from_iter over Option values.
TryFromIterOpt ==
  \E ovals \in SeqsUpTo(OptVals, MaxLen) :
    /\ res.op = "new"
    /\ arr' = try_from_iter_opt("Int32", ovals)
    /\ res' = [Call("try_from_iter_opt", Unbuilt, Unit) EXCEPT !.ovals = ovals]
    /\ UNCHANGED kernelVars

\* Array::put_validity
PutValidity ==
  \E v \in ValidityInputs :
    /\ res.op = "idle"
    /\ arr.next.some
    /\ arr' = put_validity(arr, v)
    /\ res' = [Call("put_validity", arr,
                    IF put_validity_ok(arr, v) THEN Unit
                    ELSE Err("Invalid validity length"))
                 EXCEPT !.validity = v]
    /\ UNCHANGED kernelVars

\* Array::select
Select ==
  \E sel \in SeqsUpTo(Idxs, MaxSel) :
    /\ res.op = "idle"
    /\ arr.next.some
    /\ IF select_panics(arr, sel)
         THEN /\ arr' = arr
              /\ res' = [Call("select", arr, Panic("index out of bounds"))
                           EXCEPT !.sel = sel]
         ELSE /\ arr' = select(arr, sel)
              /\ res' = [Call("select", arr, Unit) EXCEPT !.sel = sel]
    /\ UNCHANGED kernelVars

\* Selection and reads over the legacy layout.
Next ==
  \/ FromIter
  \/ FromIterOpt
  \/ SelectMut2
  \/ LogicalValue
  \/ Return

Spec == Init /\ [][Next]_vars

\* Construction from an iterator and read-back, for every element type.
NextRT ==
  \/ FromIterAll
  \/ FromIterOptAll
  \/ LogicalValue
  \/ Return

SpecRT == Init /\ [][NextRT]_vars

\* Comparison of a cell with a scalar, for every element type.
NextEq ==
  \/ FromIterAll
  \/ FromIterOptAll
  \/ PutSelection
  \/ ScalarEq
  \/ Return

SpecEq == Init /\ [][NextEq]_vars

\* Construction, put_validity and select over the next layout.
NextDict ==
  \/ TryNew
  \/ TryFromIter
  \/ TryFromIterOpt
  \/ PutValidity
  \/ Select
  \/ Return

SpecDict == Init /\ [][NextDict]_vars

(* ======================= properties: legacy layout ===================== *)
\* The physical row a logical row of `a` reads.
PhysRow(a, i) == IF a.selection2.some THEN At(a.selection2.v, i) ELSE i

\* The cell of physical row p is NULL.
CellNull(a, p) == a.validity2.some /\ ~At(a.validity2.v, p)

\* The value of physical row p of `a`: NULL for an invalid cell, else the
\* raw slot.
RowValue(a, p) ==
  IF a.validity2.some /\ p >= Len(a.validity2.v) THEN Panic("bitmap index out of bounds")
  ELSE IF CellNull(a, p) THEN Ok(ScalarNull)
  ELSE physical_scalar(a, p)

\* C1: after select_mut2(s2) the array has logical length len(s2); over an
\* existing selection s1 logical row i reads the original physical row
\* s1[s2[i]], without a selection s2 is installed as given; datatype, data
\* and validity are the ones from before the call.
C1_ComposeSelect ==
  (res.op = "select_mut2" /\ res.out.kind = "Ok") =>
    LET b == res.before
        s2 == res.sel
    IN /\ logical_len(arr) = Len(s2)
       /\ arr.datatype = b.datatype
       /\ arr.data2 = b.data2
       /\ arr.validity2 = b.validity2
       /\ IF b.selection2.some
            THEN \A i \in 0..(Len(s2) - 1) :
                   logical_value(arr, i) = RowValue(b, At(b.selection2.v, At(s2, i)))
            ELSE arr.selection2 = Some(s2)

\* C1 witness: a two-row selection composed over an existing selection
\* that it neither equals nor leaves in place, reading a stored value.
C1_Witness ==
  /\ res.op = "select_mut2"
  /\ res.out.kind = "Ok"
  /\ res.before.selection2.some
  /\ Len(res.sel) = 2
  /\ arr.selection2.v # res.sel
  /\ arr.selection2.v # res.before.selection2.v
  /\ logical_value(arr, 0).kind = "Ok"
  /\ logical_value(arr, 0) # logical_value(arr, 1)

\* C5: for i < logical_len, logical_value(i) maps i through the selection
\* to the physical row p, returns Null when the validity bit of p is
\* cleared and otherwise the value stored in slot p, as a scalar of the
\* array's datatype; is_valid(i) reports the bit of p.
C5_LogicalValueByPhysicalRow ==
  (res.op = "logical_value" /\ res.idx < logical_len(arr)) =>
    LET p == PhysRow(arr, res.idx)
    IN p < data2_len(arr.data2) =>
         /\ res.out = IF CellNull(arr, p) THEN Ok(ScalarNull)
                       ELSE Ok(Scalar(arr.datatype, At(arr.data2.vals, p)))
         /\ is_valid(arr, res.idx)
              = [kind |-> "Some",
                 val |-> Scalar("bool", IF CellNull(arr, p) THEN 0 ELSE 1)]

\* C6: logical_value(i) returns an error for every i >= logical_len, with
\* or without a selection; it neither panics nor returns a value.
C6_OutOfBoundsIsError ==
  (res.op = "logical_value" /\ res.idx >= logical_len(arr)) =>
    res.out.kind = "Err"

\* C7: an array built by from_iter over Option values reads back, through
\* logical_value, Null at the None positions and the scalar of the input
\* value at the Some positions; the validity bit is cleared exactly at the
\* None positions, whose slots hold T::default().
C7_RoundTrip ==
  res.op = "from_iter_opt" =>
    /\ logical_len(arr) = Len(res.ovals)
    /\ \A k \in 1..Len(res.ovals) :
         /\ logical_value(arr, k - 1)
              = IF res.ovals[k].some
                  THEN Ok(Scalar(arr.datatype, res.ovals[k].v))
                  ELSE Ok(ScalarNull)
         /\ arr.validity2.v[k] = res.ovals[k].some
         /\ ~res.ovals[k].some => arr.data2.vals[k] = 0

\* The scalar is NULL or of the variant the array's datatype reads as, and
\* the row it is compared with addresses a physical row.
EqTyped(a, scalar, row) ==
  /\ scalar.tag \in {"Null", a.datatype}
  /\ row < logical_len(a) => PhysRow(a, row) < data2_len(a.data2)

\* C10 as stated: a Null scalar matches exactly the NULL cells, a non-null
\* scalar exactly the valid cells holding its payload, and a row past the
\* logical length is a 'Row out of bounds' error.
C10_ScalarEqEveryVariant ==
  (res.op = "scalar_value_logically_eq" /\ EqTyped(arr, res.scalar, res.idx)) =>
    IF res.idx >= logical_len(arr) THEN res.out = Err("Row out of bounds")
    ELSE LET p == PhysRow(arr, res.idx)
         IN IF res.scalar.tag = "Null" THEN res.out = OkBool(CellNull(arr, p))
            ELSE res.out = OkBool(~CellNull(arr, p)
                                    /\ At(arr.data2.vals, p) = res.scalar.v)

\* The scalar variants scalar_value_logically_eq has no arm for.
EqUnhandled == {"Float16", "Struct", "List"}

\* The scalar is NULL, or of a variant without an arm, or of a variant whose
\* physical type is the array's storage; the row addresses a physical row.
EqCovered(a, scalar, row) ==
  /\ \/ scalar.tag \in EqUnhandled
     \/ storage_matches(scalar_eq_physical(scalar.tag), a.data2.variant)
  /\ row < logical_len(a) => PhysRow(a, row) < data2_len(a.data2)

\* C10 amended: as C10, for the scalar variants that have an arm and read
\* the array's storage; a Float16, Struct or List scalar is a
\* not-implemented error on every row below the logical length.
C10_ScalarEqHandledVariants ==
  (res.op = "scalar_value_logically_eq" /\ EqCovered(arr, res.scalar, res.idx)) =>
    IF res.idx >= logical_len(arr) THEN res.out = Err("Row out of bounds")
    ELSE LET p == PhysRow(arr, res.idx)
         IN IF res.scalar.tag = "Null" THEN res.out = OkBool(CellNull(arr, p))
            ELSE IF res.scalar.tag \in EqUnhandled
              THEN res.out = Err("not implemented: scalar value eq")
            ELSE res.out = OkBool(~CellNull(arr, p)
                                    /\ At(arr.data2.vals, p) = res.scalar.v)

\* C10 witness: a non-null scalar compared, through a selection, with a
\* NULL cell whose default slot holds the scalar's payload.
C10_Witness ==
  /\ res.op = "scalar_value_logically_eq"
  /\ res.scalar.tag = "Int64"
  /\ arr.selection2.some
  /\ res.idx < logical_len(arr)
  /\ PhysRow(arr, res.idx) < data2_len(arr.data2)
  /\ PhysRow(arr, res.idx) # res.idx
  /\ CellNull(arr, PhysRow(arr, res.idx))
  /\ At(arr.data2.vals, PhysRow(arr, res.idx)) = res.scalar.v
  /\ res.out = OkBool(FALSE)

(* ======================== properties: next layout ====================== *)
\* C2: after try_new, put_validity and select calls that returned Ok, the
\* validity is as long as the primary buffer: validity.len() == capacity().
C2_ValidityLenIsCapacity ==
  arr.next.some => validity_len(arr.next.v.validity) = capacity(arr)

\* C3: in every dictionary-encoded array reached through select, each
\* index of the primary buffer is below the length of the dictionary
\* source buffer in the secondary buffer.
C3_DictionaryIndicesInBounds ==
  (arr.next.some /\ is_dictionary(arr)) =>
    \A k \in 1..Len(arr.next.v.data.primary) :
      arr.next.v.data.primary[k] < Len(arr.next.v.data.secondary.buffer.primary)

\* C4: after select(sel) returns Ok, is_dictionary() holds and both
\* capacity() and logical_len() report len(sel).
C4_SelectLogicalLength ==
  (res.op = "select" /\ res.out.kind = "Ok") =>
    /\ is_dictionary(arr)
    /\ capacity(arr) = Len(res.sel)
    /\ logical_len(arr) = Len(res.sel)

(* ========================= fixed-width integers ======================== *)
\* The machine integers of the kernels run up to 128 bits.  A value is held
\* as a sign and a magnitude, the magnitude as little-endian base-256
\* digits with no leading zero digit, so that every width keeps its own
\* range and its own wrap-around.
Z(neg, mag) == [neg |-> neg /\ mag # <<>>, mag |-> mag]

\* Digit k of a magnitude, 0 beyond its length.
Digit(a, k) == IF k <= Len(a) THEN a[k] ELSE 0

RECURSIVE NatFromInt(_)
NatFromInt(n) == IF n = 0 THEN <<>> ELSE <<n % 256>> \o NatFromInt(n \div 256)

\* The value of a small integer literal.
ZFromInt(n) == IF n < 0 THEN Z(TRUE, NatFromInt(-n)) ELSE Z(FALSE, NatFromInt(n))

ZZero == ZFromInt(0)

RECURSIVE NatNorm(_)
NatNorm(a) ==
  IF a # <<>> /\ a[Len(a)] = 0 THEN NatNorm(SubSeq(a, 1, Len(a) - 1)) ELSE a

RECURSIVE NatAddFrom(_, _, _, _)
NatAddFrom(a, b, k, carry) ==
  IF k > Len(a) /\ k > Len(b)
    THEN (IF carry = 0 THEN <<>> ELSE <<carry>>)
    ELSE LET s == Digit(a, k) + Digit(b, k) + carry
         IN <<s % 256>> \o NatAddFrom(a, b, k + 1, s \div 256)

NatAdd(a, b) == NatNorm(NatAddFrom(a, b, 1, 0))

RECURSIVE NatLessFrom(_, _, _)
NatLessFrom(a, b, k) ==
  IF k = 0 THEN FALSE
  ELSE IF a[k] # b[k] THEN a[k] < b[k]
  ELSE NatLessFrom(a, b, k - 1)

NatLess(a, b) ==
  IF Len(a) # Len(b) THEN Len(a) < Len(b) ELSE NatLessFrom(a, b, Len(a))

RECURSIVE NatSubFrom(_, _, _, _)
NatSubFrom(a, b, k, borrow) ==
  IF k > Len(a) THEN <<>>
  ELSE LET d == Digit(a, k) - Digit(b, k) - borrow
       IN <<(d + 256) % 256>> \o NatSubFrom(a, b, k + 1, IF d < 0 THEN 1 ELSE 0)

\* a - b for a >= b
NatSub(a, b) == NatNorm(NatSubFrom(a, b, 1, 0))

RECURSIVE NatScaleFrom(_, _, _, _)
NatScaleFrom(a, d, k, carry) ==
  IF k > Len(a) THEN NatFromInt(carry)
  ELSE LET p == a[k] * d + carry
       IN <<p % 256>> \o NatScaleFrom(a, d, k + 1, p \div 256)

RECURSIVE NatMulFrom(_, _, _)
NatMulFrom(a, b, k) ==
  IF k > Len(b) THEN <<>>
  ELSE NatAddFrom(NatScaleFrom(a, b[k], 1, 0), <<0>> \o NatMulFrom(a, b, k + 1), 1, 0)

NatMul(a, b) == NatNorm(NatMulFrom(a, b, 1))

NatScale(a, d) == NatNorm(NatScaleFrom(a, d, 1, 0))

\* The largest digit d with d * b <= r, found bit by bit from `bit` down,
\* for r < 256 * b.
RECURSIVE QuotDigit(_, _, _, _)
QuotDigit(r, b, bit, acc) ==
  IF bit = 0 THEN acc
  ELSE IF NatLess(r, NatScale(b, acc + bit))
    THEN QuotDigit(r, b, bit \div 2, acc)
    ELSE QuotDigit(r, b, bit \div 2, acc + bit)

\* Long division of a by b from digit k down, with the quotient digits q
\* and the remainder r of the digits above k.  The lengths of q and r are
\* read before the next digit so that both are values by then and the
\* evaluation does not nest one digit inside the other.
RECURSIVE NatDivModFrom(_, _, _, _, _)
NatDivModFrom(a, b, k, q, r) ==
  IF k = 0 \/ Len(q) + Len(r) < 0 THEN [q |-> q, r |-> r]
  ELSE LET r1 == NatNorm(<<a[k]>> \o r)
           d == QuotDigit(r1, b, 128, 0)
       IN NatDivModFrom(a, b, k - 1, <<d>> \o q, NatSub(r1, NatScale(b, d)))

\* Quotient and remainder of a by b, for b # 0.
NatDivMod(a, b) ==
  LET h == NatDivModFrom(a, b, Len(a), <<>>, <<>>)
  IN [q |-> NatNorm(h.q), r |-> h.r]

ZNeg(x) == Z(~x.neg, x.mag)

ZAdd(x, y) ==
  IF x.neg = y.neg THEN Z(x.neg, NatAdd(x.mag, y.mag))
  ELSE IF NatLess(x.mag, y.mag) THEN Z(y.neg, NatSub(y.mag, x.mag))
  ELSE Z(x.neg, NatSub(x.mag, y.mag))

ZSub(x, y) == ZAdd(x, ZNeg(y))

ZMul(x, y) == Z(x.neg # y.neg, NatMul(x.mag, y.mag))

\* Division and remainder as the machine does them: the quotient is
\* truncated towards zero and the remainder has the sign of the dividend.
ZDiv(x, y) == Z(x.neg # y.neg, NatDivMod(x.mag, y.mag).q)

ZRem(x, y) == Z(x.neg, NatDivMod(x.mag, y.mag).r)

ZLess(x, y) ==
  IF x.neg # y.neg THEN x.neg
  ELSE IF x.neg THEN NatLess(y.mag, x.mag)
  ELSE NatLess(x.mag, y.mag)

ZLe(x, y) == ~ZLess(y, x)

\* 2^n as a magnitude, for n a multiple of 8.
NatPow2(n) == [k \in 1..(n \div 8) |-> 0] \o <<1>>

ZPow2(n) == Z(FALSE, NatPow2(n))

\* The integer type of a physical type: its width in bits and whether it
\* is signed.
int_bits(phys) ==
  CASE phys \in {"Int8", "UInt8"} -> 8
    [] phys \in {"Int16", "UInt16"} -> 16
    [] phys \in {"Int32", "UInt32"} -> 32
    [] phys \in {"Int64", "UInt64"} -> 64
    [] OTHER -> 128

int_signed(phys) == phys \in {"Int8", "Int16", "Int32", "Int64", "Int128"}

\* 2^(n-1) as a magnitude.
NatHalf(n) == [k \in 1..(n \div 8) |-> IF k = n \div 8 THEN 128 ELSE 0]

\* T::MIN and T::MAX
int_MIN(phys) ==
  IF int_signed(phys) THEN Z(TRUE, NatHalf(int_bits(phys))) ELSE ZZero

int_MAX(phys) ==
  IF int_signed(phys)
    THEN Z(FALSE, NatSub(NatHalf(int_bits(phys)), <<1>>))
    ELSE Z(FALSE, NatSub(NatPow2(int_bits(phys)), <<1>>))

in_range(phys, z) == ZLe(int_MIN(phys), z) /\ ZLe(z, int_MAX(phys))

\* The value of the low bits of z read in the integer type: what a
\* wrapping operation leaves, and what an `as` cast to the type gives.
wrapping(phys, z) ==
  LET n == int_bits(phys) \div 8
      m == NatNorm(SubSeq(z.mag, 1, IF Len(z.mag) < n THEN Len(z.mag) ELSE n))
      u == IF z.neg /\ m # <<>> THEN NatSub(NatPow2(int_bits(phys)), m) ELSE m
  IN IF int_signed(phys) /\ Digit(u, n) >= 128
       THEN Z(TRUE, NatSub(NatPow2(int_bits(phys)), u))
       ELSE Z(FALSE, u)

(* ============================ scalar kernels =========================== *)
\* Array::physical_type: the storage's physical type, with Binary storage
\* of a Utf8 array reported as Utf8.
physical_type(a) ==
  IF a.data2.variant = "Binary"
    THEN (IF a.datatype = "Utf8" THEN "Utf8" ELSE "Binary")
    ELSE a.data2.variant

IntegerTypes ==
  {"Int8", "Int16", "Int32", "Int64", "Int128",
   "UInt8", "UInt16", "UInt32", "UInt64", "UInt128"}

\* The datatype pairs Div::plan_from_datatypes accepts with the left
\* datatype as the return type.
DivPlanPairs ==
  {<<t, t>> : t \in {"Float32", "Float64", "Int8", "Int16", "Int32", "Int64",
                     "UInt8", "UInt16", "UInt32", "UInt64"}}
    \cup {<<"Date32", "Int64">>}

\* The decimal pairs.
DecimalPairs == {<<"Decimal64", "Decimal64">>, <<"Decimal128", "Decimal128">>}

\* Div::plan_from_datatypes (arith/div.rs): the decimal pairs are planned
\* with the return type Float64.
Div_plan_from_datatypes(ta, tb) ==
  IF <<ta, tb>> \in DivPlanPairs
    THEN [ok |-> TRUE, datatype |-> ta]
  ELSE IF <<ta, tb>> \in DecimalPairs
    THEN [ok |-> TRUE, datatype |-> "Float64"]
    ELSE [ok |-> FALSE, datatype |-> "Null"]

\* Rem::plan_from_datatypes
Rem_plan_from_datatypes(ta, tb) ==
  IF <<ta, tb>> \in DivPlanPairs \cup {<<"Interval", "Int64">>}
    THEN [ok |-> TRUE, datatype |-> ta]
    ELSE [ok |-> FALSE, datatype |-> "Null"]

\* Results of an execution.
ExecOk(a) == [kind |-> "Ok", msg |-> "", out |-> a]
ExecErr(msg) == [kind |-> "Err", msg |-> msg, out |-> Unbuilt]
ExecPanic(msg) == [kind |-> "Panic", msg |-> msg, out |-> Unbuilt]

\* The closure `a / b` of the Div arms: an integer division by zero
\* panics, and so does T::MIN / -1, whose quotient is out of range.  Float
\* quotients by zero are non-finite; the model keeps no float payload and
\* leaves 0 in the slot.
div_closure(phys, x, y) ==
  LET overflow == int_signed(phys) /\ x = int_MIN(phys) /\ y = ZFromInt(-1)
      panic == phys \in IntegerTypes /\ (y = ZZero \/ overflow)
  IN [panic |-> panic,
      v |-> IF y = ZZero \/ panic THEN ZZero ELSE ZDiv(x, y)]

\* The closure `a % b` of the Rem arms: an integer remainder by zero
\* panics, and so does T::MIN % -1.
rem_closure(phys, x, y) ==
  LET overflow == int_signed(phys) /\ x = int_MIN(phys) /\ y = ZFromInt(-1)
      panic == phys \in IntegerTypes /\ (y = ZZero \/ overflow)
  IN [panic |-> panic,
      v |-> IF y = ZZero \/ panic THEN ZZero ELSE ZRem(x, y)]

\* A Float64 value is held as the fraction it stands for; a zero
\* denominator is a non-finite value.  Rounding is not modelled.
F64(num, den) == [num |-> num, den |-> den]

\* The closure `a / b` on two Float64 values.
f64_div_closure(x, y) ==
  [panic |-> FALSE, v |-> F64(ZMul(x.num, y.den), ZMul(x.den, y.num))]

\* The closure handed to the executor, applied to the two slots.
closure(op, phys, x, y) ==
  IF op = "div" THEN div_closure(phys, x, y)
  ELSE IF op = "f64_div" THEN f64_div_closure(x, y)
  ELSE rem_closure(phys, x, y)

\* The physical row the executor reads for logical row i.
executor_row(a, i) == IF a.selection2.some THEN At(a.selection2.v, i) ELSE i

\* The executor finds logical row i of `a` NULL.
executor_is_null(a, i) ==
  a.validity2.some /\ ~At(a.validity2.v, executor_row(a, i))

\* BinaryExecutor::execute: the two arrays must have the same logical
\* length; row i of the output is NULL when row i of either side is NULL,
\* and otherwise holds what the closure op computes from the two slots.  The
\* closure is not called for a NULL row.  The output has the builder's
\* datatype, no selection, and a validity only when some row is NULL.
BinaryExecutor_execute(a, b, datatype, phys, op) ==
  LET n == logical_len(a)
      null(i) == executor_is_null(a, i) \/ executor_is_null(b, i)
      cell(i) == closure(op, phys, At(a.data2.vals, executor_row(a, i)),
                     At(b.data2.vals, executor_row(b, i)))
  IN IF logical_len(a) # logical_len(b)
       THEN ExecErr("Differing lengths")
     ELSE IF \E i \in 0..(n - 1) : ~null(i) /\ cell(i).panic
       THEN ExecPanic("attempt to divide by zero")
     ELSE ExecOk([datatype |-> datatype,
                  selection2 |-> None,
                  validity2 |-> IF \E i \in 0..(n - 1) : null(i)
                                  THEN Some([k \in 1..n |-> ~null(k - 1)])
                                  ELSE None,
                  data2 |-> ArrayData2(phys,
                              [k \in 1..n |-> IF null(k - 1) THEN ZZero
                                                ELSE cell(k - 1).v]),
                  next |-> NoNext])

\* The physical types DivImpl::execute has an arm for.
DivExecuteTypes == IntegerTypes \cup {"Float32", "Float64"}

\* DivImpl::execute handing the left array to both sides of the executor.
DivImpl_execute_left_twice(datatype, a, b) ==
  IF physical_type(a) = physical_type(b) /\ physical_type(a) \in DivExecuteTypes
    THEN BinaryExecutor_execute(a, a, datatype, physical_type(a), "div")
    ELSE ExecErr("unhandled physical types")

\* 10^n as an integer.
RECURSIVE ZPow10(_)
ZPow10(n) == IF n = 0 THEN ZFromInt(1) ELSE ZMul(ZFromInt(10), ZPow10(n - 1))

\* cast_decimal_to_float: every raw value becomes raw / 10^scale; the
\* selection and the validity stay.
cast_decimal_to_float(a) ==
  [datatype |-> "Float64",
   selection2 |-> a.selection2,
   validity2 |-> a.validity2,
   data2 |-> ArrayData2("Float64",
               [k \in 1..Len(a.data2.vals) |->
                  F64(a.data2.vals[k], ZPow10(a.meta.scale))]),
   next |-> NoNext]

\* DivImpl::execute (arith/div.rs): two decimal arrays are cast to Float64
\* and divided as floats into a Float64 array; otherwise both arrays of
\* one handled physical type go to the BinaryExecutor with the closure
\* `a / b`, and any other pair is an error.
DivImpl_execute(datatype, a, b) ==
  IF <<a.datatype, b.datatype>> \in DecimalPairs
    THEN BinaryExecutor_execute(cast_decimal_to_float(a), cast_decimal_to_float(b),
                                "Float64", "Float64", "f64_div")
  ELSE IF physical_type(a) = physical_type(b) /\ physical_type(a) \in DivExecuteTypes
    THEN BinaryExecutor_execute(a, b, datatype, physical_type(a), "div")
    ELSE ExecErr("unhandled physical types")

\* The array variants RemImpl::execute has an arm for.
RemExecuteTypes ==
  {"Int8", "Int16", "Int32", "Int64", "UInt8", "UInt16", "UInt32", "UInt64",
   "Float32", "Float64"}

\* RemImpl::execute: both arrays of one handled variant go through
\* primitive_binary_execute with the closure `a % b`; any other pair
\* panics.
RemImpl_execute(datatype, a, b) ==
  IF physical_type(a) = physical_type(b) /\ physical_type(a) \in RemExecuteTypes
    THEN BinaryExecutor_execute(a, b, datatype, physical_type(a), "rem")
    ELSE ExecPanic("unexpected array type")

(* ---------------------------- kernel actions --------------------------- *)
\* Datatypes of the kernel inputs.
KernelTypes == {"Int32", "Utf8"}

\* The outcome of planning a function from two datatypes: a rejected pair
\* ends the call with the planning error.
PlanOf(fn, ta, tb, plan) ==
  [stage |-> IF plan.ok THEN "planned" ELSE "done",
   fn |-> fn, ok |-> plan.ok, datatype |-> plan.datatype,
   inputs |-> <<ta, tb>>, build |-> "release"]

\* Div::plan_from_datatypes
DivPlan ==
  \E ta \in KernelTypes, tb \in KernelTypes :
    /\ kplan.stage = "idle"
    /\ kplan' = PlanOf("Div", ta, tb, Div_plan_from_datatypes(ta, tb))
    /\ kout' = IF kplan'.ok THEN NoOut ELSE ExecErr("invalid input types")
    /\ UNCHANGED <<ka, kb>>
    /\ UNCHANGED arrayVars

\* Rem::plan_from_datatypes
RemPlan ==
  \E ta \in KernelTypes, tb \in KernelTypes :
    /\ kplan.stage = "idle"
    /\ kplan' = PlanOf("Rem", ta, tb, Rem_plan_from_datatypes(ta, tb))
    /\ kout' = IF kplan'.ok THEN NoOut ELSE ExecErr("invalid input types")
    /\ UNCHANGED <<ka, kb>>
    /\ UNCHANGED arrayVars

\* The selections over an array of n physical rows that stay inside it.
SelectionsWithin(n) == SeqsUpTo(0..(n - 1), MaxSel)

\* Option values as the kernels' integers.
ZOpts(ovals) ==
  [k \in 1..Len(ovals) |-> IF ovals[k].some THEN Some(ZFromInt(ovals[k].v))
                             ELSE ovals[k]]

\* The two input arrays of the planned datatypes are built: the left one
\* from Option values, with or without a selection on top; the right one
\* from Option values or from plain values.
KernelInputs ==
  \E oa \in SeqsUpTo(OptVals, MaxLen), ob \in SeqsUpTo(OptVals, MaxLen) :
    /\ kplan.stage = "planned"
    /\ \/ ka' = from_iter_opt(kplan.inputs[1], ZOpts(oa))
       \/ \E s \in SelectionsWithin(Len(oa)) :
            ka' = select_mut2(from_iter_opt(kplan.inputs[1], ZOpts(oa)), s)
    /\ \/ kb' = from_iter_opt(kplan.inputs[2], ZOpts(ob))
       \/ /\ \A k \in 1..Len(ob) : ob[k].some
          /\ kb' = from_iter(kplan.inputs[2], [k \in 1..Len(ob) |-> ZFromInt(ob[k].v)])
    /\ kplan' = [kplan EXCEPT !.stage = "built"]
    /\ kout' = NoOut
    /\ UNCHANGED arrayVars

\* DivImpl::execute on the two arrays.
DivExecute ==
  /\ kplan.stage = "built"
  /\ kplan.fn = "Div"
  /\ kout' = DivImpl_execute(kplan.datatype, ka, kb)
  /\ kplan' = [kplan EXCEPT !.stage = "done"]
  /\ UNCHANGED <<ka, kb>>
  /\ UNCHANGED arrayVars

\* RemImpl::execute on the two arrays.
RemExecute ==
  /\ kplan.stage = "built"
  /\ kplan.fn = "Rem"
  /\ kout' = RemImpl_execute(kplan.datatype, ka, kb)
  /\ kplan' = [kplan EXCEPT !.stage = "done"]
  /\ UNCHANGED <<ka, kb>>
  /\ UNCHANGED arrayVars

\* The caller takes the result; the inputs are dropped.
KernelReturn ==
  /\ kplan.stage = "done"
  /\ ka' = Unbuilt
  /\ kb' = Unbuilt
  /\ kplan' = NoPlan
  /\ kout' = NoOut
  /\ UNCHANGED arrayVars

\* Planning and execution of Div and Rem over two arrays.
NextKernel ==
  \/ DivPlan
  \/ RemPlan
  \/ KernelInputs
  \/ DivExecute
  \/ RemExecute
  \/ KernelReturn

SpecKernel == Init /\ [][NextKernel]_vars

(* ========================== properties: kernels ======================== *)
\* The function was planned and has executed on the two arrays.
Executed == kplan.stage = "done" /\ kplan.ok

\* Logical row i of `a` is NULL, after the selection is resolved.
RowNull(a, i) == CellNull(a, PhysRow(a, i))

\* C8: when a binary kernel returns an output for two arrays of equal
\* logical length n, the output has logical length n and its row i is NULL
\* exactly when row i of the left or of the right input is NULL.
C8_NullPropagation ==
  (Executed /\ kout.kind = "Ok" /\ logical_len(ka) = logical_len(kb)) =>
    /\ logical_len(kout.out) = logical_len(ka)
    /\ \A i \in 0..(logical_len(ka) - 1) :
         RowNull(kout.out, i) <=> (RowNull(ka, i) \/ RowNull(kb, i))

\* Div returned an output for a left array under a selection, with a row
\* that is NULL only on the right, one NULL only on the left, and one valid
\* on both sides.
C8_Witness ==
  /\ Executed /\ kplan.fn = "Div" /\ kout.kind = "Ok"
  /\ has_selection(ka)
  /\ \E i \in 0..(logical_len(ka) - 1) : ~RowNull(ka, i) /\ RowNull(kb, i)
  /\ \E i \in 0..(logical_len(ka) - 1) : RowNull(ka, i) /\ ~RowNull(kb, i)

\* C9: when an integer Div or Rem executes on arrays with a row that is
\* valid on both sides and whose divisor is 0, execute returns Err: it
\* does not panic and produces no output.
C9_ZeroDivisorIsError ==
  (/\ Executed
   /\ physical_type(ka) \in IntegerTypes
   /\ logical_len(ka) = logical_len(kb)
   /\ \E i \in 0..(logical_len(ka) - 1) :
        /\ ~RowNull(ka, i) /\ ~RowNull(kb, i)
        /\ At(kb.data2.vals, PhysRow(kb, i)) = ZZero)
    => kout.kind = "Err"

(* =================== properties: put_validity, select ================== *)
\* C11: put_validity(v) returns Ok and installs v when v is as long as the
\* primary capacity; otherwise it returns the 'Invalid validity length'
\* error and leaves the validity and the data as they were.
C11_PutValidityChecksLength ==
  res.op = "put_validity" =>
    IF Len(res.validity) = capacity(res.before)
      THEN /\ res.out = Unit
           /\ arr.next.v.validity = res.validity
           /\ arr.next.v.data = res.before.next.v.data
      ELSE /\ res.out = Err("Invalid validity length")
           /\ arr = res.before

\* C11 witness: a non-empty validity of the wrong length is refused on an
\* array that holds rows.
C11_Witness ==
  /\ res.op = "put_validity"
  /\ capacity(res.before) > 0
  /\ Len(res.validity) > 0
  /\ Len(res.validity) # capacity(res.before)
  /\ res.out.kind = "Err"

\* C12: select(sel) on a dictionary builds the index buffer
\* new[i] = old[sel[i]] and leaves the dictionary source buffer and source
\* validity as they were; on a non-dictionary array the index buffer is
\* sel and the previous primary buffer and validity move, unmodified, into
\* the dictionary secondary buffer.
C12_SelectBuffers ==
  (res.op = "select" /\ res.out.kind = "Ok") =>
    LET old == res.before.next.v
        new == arr.next.v
    IN /\ Len(new.data.primary) = Len(res.sel)
       /\ new.data.secondary.kind = "Dictionary"
       /\ IF is_dictionary(res.before)
            THEN /\ \A k \in 1..Len(res.sel) :
                      new.data.primary[k] = At(old.data.primary, res.sel[k])
                 /\ new.data.secondary = old.data.secondary
            ELSE /\ new.data.primary = res.sel
                 /\ new.data.secondary.buffer.primary = old.data.primary
                 /\ new.data.secondary.buffer.ptype = old.data.ptype
                 /\ new.data.secondary.buffer.heap = old.data.secondary.kind
                 /\ new.data.secondary.validity = old.validity

\* C12 witness: a select on a dictionary whose composed index buffer
\* differs from the selection, over a source with an invalid row.
C12_Witness ==
  /\ res.op = "select" /\ res.out.kind = "Ok"
  /\ is_dictionary(res.before)
  /\ Len(res.sel) > 1
  /\ arr.next.v.data.primary # res.sel
  /\ \E k \in 1..Len(arr.next.v.data.secondary.validity) :
       ~arr.next.v.data.secondary.validity[k]

(* ========================== physical_scalar table ====================== *)
\* The logical datatypes.
DataTypes == ScalarTags

\* The variants of ArrayData2.
StorageVariants ==
  {"UntypedNull", "Boolean", "Float16", "Float32", "Float64",
   "Int8", "Int16", "Int32", "Int64", "Int128",
   "UInt8", "UInt16", "UInt32", "UInt64", "UInt128",
   "Interval", "Binary", "List"}

\* ArrayData2::physical_type inverted: the storage variant that holds a
\* physical type.  Utf8 and Binary share the Binary storage.
physical_storage_variant(pt) == IF pt \in {"Utf8", "Binary"} THEN "Binary" ELSE pt

\* Array::new_with_array_data
new_with_array_data(dt, data) ==
  [datatype |-> dt,
   selection2 |-> None,
   validity2 |-> None,
   data2 |-> data,
   next |-> NoNext]

\* Array::new_with_array_data with any datatype over any storage.
NewWithArrayData ==
  \E dt \in DataTypes, variant \in StorageVariants, vals \in SeqsUpTo(Vals, MaxLen) :
    /\ res.op = "new"
    /\ arr' = new_with_array_data(dt, ArrayData2(variant, vals))
    /\ res' = Call("new_with_array_data", Unbuilt, Unit)
    /\ UNCHANGED kernelVars

\* Array::physical_scalar
PhysicalScalar ==
  \E idx \in Idxs :
    /\ res.op = "idle"
    /\ res' = [Call("physical_scalar", arr, physical_scalar(arr, idx))
                 EXCEPT !.idx = idx]
    /\ UNCHANGED arr
    /\ UNCHANGED kernelVars

\* Raw reads of arrays of every datatype over every storage.
NextScalar ==
  \/ NewWithArrayData
  \/ PhysicalScalar
  \/ Return

SpecScalar == Init /\ [][NextScalar]_vars

\* C13: physical_scalar(idx) of a stored row succeeds, with the ScalarValue
\* variant of the DataType, whenever the storage variant is the one of the
\* physical type the DataType maps to, and returns the 'Array data not
\* valid for data type' error exactly when it is another one.
C13_PhysicalScalarTable ==
  (/\ res.op = "physical_scalar"
   /\ res.idx < data2_len(arr.data2)
   /\ arr.datatype # "Struct") =>
    IF arr.data2.variant
         = physical_storage_variant(datatype_physical_type(arr.datatype))
      THEN res.out = IF arr.datatype = "Null" THEN Ok(ScalarNull)
                     ELSE Ok(Scalar(arr.datatype, At(arr.data2.vals, res.idx)))
      ELSE res.out = Err("Array data not valid for data type")

(* ================================ try_new ============================== *)
\* The logical datatypes that have a physical type.
TryNewTypes == DataTypes \ {"Struct"}

\* Array::try_new for every datatype: the array, or the error of
\* array_buffer_for_datatype.
TryNewAny ==
  \E dt \in TryNewTypes, cap \in 0..MaxLen :
    /\ res.op = "new"
    /\ arr' = IF array_buffer_for_datatype_ok(dt) THEN try_new(dt, cap) ELSE arr
    /\ res' = [Call("try_new", Unbuilt,
                    IF array_buffer_for_datatype_ok(dt) THEN Unit
                    ELSE Err("not implemented: create array buffer"))
                 EXCEPT !.datatype = dt, !.capacity = cap]
    /\ UNCHANGED kernelVars

\* Array::capacity
Capacity ==
  /\ res.op = "idle"
  /\ arr.next.some
  /\ res' = [Call("capacity", arr, Ok(Scalar("usize", capacity(arr))))
               EXCEPT !.datatype = arr.datatype]
  /\ UNCHANGED arr
  /\ UNCHANGED kernelVars

\* The array goes out of scope; another one may be constructed.
Drop ==
  /\ res.op = "idle"
  /\ arr' = Unbuilt
  /\ res' = Call("new", Unbuilt, Unit)
  /\ UNCHANGED kernelVars

\* Construction of arrays of every datatype.
NextNew ==
  \/ TryNewAny
  \/ Capacity
  \/ Return
  \/ Drop

SpecNew == Init /\ [][NextNew]_vars

\* The secondary buffer a datatype requires: a string heap for Utf8 and
\* Binary, a child array for List, none otherwise.
RequiredSecondary(dt) ==
  IF dt \in {"Utf8", "Binary"} THEN "StringViewHeap"
  ELSE IF dt = "List" THEN "List"
  ELSE "None"

\* C14: try_new(datatype, capacity) succeeds for every datatype that has a
\* physical type and returns an array of that capacity with an all-valid
\* validity of that length and the secondary buffer the type requires: a
\* string heap for Utf8 and Binary, a child of the same capacity for List.
C14_TryNewEveryType ==
  res.op = "try_new" =>
    /\ res.out = Unit
    /\ capacity(arr) = res.capacity
    /\ arr.next.v.validity = new_all_valid(res.capacity)
    /\ arr.next.v.data.secondary.kind = RequiredSecondary(res.datatype)
    /\ res.datatype = "List" =>
         Len(arr.next.v.data.secondary.buffer.primary) = res.capacity

(* ============================== null arrays ============================ *)
\* SelectionVector::repeated(len, row)
repeated(len, row) == [k \in 1..len |-> row]

\* Bitmap::new_with_all_false / Bitmap::new_with_all_true
new_with_all_false(n) == [k \in 1..n |-> FALSE]
new_with_all_true(n) == [k \in 1..n |-> TRUE]

\* PhysicalType::zeroed_array_data(len): the storage of the physical type
\* with `len` zeroed slots.
zeroed_array_data(pt, len) ==
  ArrayData2(physical_storage_variant(pt), [k \in 1..len |-> 0])

\* Array::new_untyped_null_array
new_untyped_null_array(len) ==
  [datatype |-> "Null",
   selection2 |-> Some(repeated(len, 0)),
   validity2 |-> Some(new_with_all_false(1)),
   data2 |-> ArrayData2("UntypedNull", <<0>>),
   next |-> NoNext]

\* new_typed_null_array with the one physical row marked valid.
new_typed_null_array_valid_row(dt, len) ==
  [datatype |-> dt,
   selection2 |-> Some(repeated(len, 0)),
   validity2 |-> Some(new_with_all_true(1)),
   data2 |-> zeroed_array_data(datatype_physical_type(dt), 1),
   next |-> NoNext]

\* Array::new_typed_null_array
new_typed_null_array(dt, len) ==
  [datatype |-> dt,
   selection2 |-> Some(repeated(len, 0)),
   validity2 |-> Some(new_with_all_false(1)),
   data2 |-> zeroed_array_data(datatype_physical_type(dt), 1),
   next |-> NoNext]

\* Array::new_untyped_null_array
NewUntypedNullArray ==
  \E n \in 0..MaxLen :
    /\ res.op = "new"
    /\ arr' = new_untyped_null_array(n)
    /\ res' = [Call("new_untyped_null_array", Unbuilt, Unit) EXCEPT !.capacity = n]
    /\ UNCHANGED kernelVars

\* Array::new_typed_null_array
NewTypedNullArray ==
  \E dt \in TryNewTypes, n \in 0..MaxLen :
    /\ res.op = "new"
    /\ arr' = new_typed_null_array(dt, n)
    /\ res' = [Call("new_typed_null_array", Unbuilt, Unit)
                 EXCEPT !.datatype = dt, !.capacity = n]
    /\ UNCHANGED kernelVars

\* Array::is_valid
IsValid ==
  \E idx \in Idxs :
    /\ res.op = "idle"
    /\ res' = [Call("is_valid", arr, is_valid(arr, idx)) EXCEPT !.idx = idx]
    /\ UNCHANGED arr
    /\ UNCHANGED kernelVars

\* Constant-null arrays and reads of them.
NextNull ==
  \/ NewUntypedNullArray
  \/ NewTypedNullArray
  \/ LogicalValue
  \/ IsValid
  \/ Return

SpecNull == Init /\ [][NextNull]_vars

\* C15: new_typed_null_array(datatype, n) and new_untyped_null_array(n)
\* return an array of logical length n over one physical row: storage and
\* validity of length 1, the one validity bit false, a selection of n
\* zeros; every row i < n has is_valid(i) = Some(false) and reads Null.
C15_NullArrays ==
  res.op \in {"new_untyped_null_array", "new_typed_null_array"} =>
    /\ res.out = Unit
    /\ logical_len(arr) = res.capacity
    /\ data2_len(arr.data2) = 1
    /\ arr.validity2 = Some(<<FALSE>>)
    /\ arr.selection2 = Some([k \in 1..res.capacity |-> 0])
    /\ \A i \in 0..(res.capacity - 1) :
         /\ is_valid(arr, i) = [kind |-> "Some", val |-> Scalar("bool", 0)]
         /\ logical_value(arr, i) = Ok(ScalarNull)

\* C15 witness: a typed null array of several rows over storage that is
\* not the untyped one.
C15_Witness ==
  /\ res.op = "new_typed_null_array"
  /\ res.capacity > 1
  /\ arr.datatype = "Decimal64"
  /\ arr.data2.variant = "Int64"
  /\ logical_len(arr) = res.capacity
  /\ logical_value(arr, res.capacity - 1) = Ok(ScalarNull)

(* ================================= slice =============================== *)
\* SelectionVector::slice_unchecked(offset, count)
slice_unchecked(sel, offset, count) == SubSeq(sel, offset + 1, offset + count)

\* SelectionVector::with_range(lo..hi)
with_range(lo, hi) == [k \in 1..(hi - lo) |-> lo + k - 1]

\* slice that always installs the identity range, whatever selection the
\* array carries.
slice_ignores_selection(a, offset, count) ==
  [datatype |-> a.datatype,
   selection2 |-> Some(with_range(offset, offset + count)),
   validity2 |-> a.validity2,
   data2 |-> a.data2,
   next |-> NoNext]

\* Array::slice: the sliced selection, or the range offset..offset+count
\* when there is none, over the same validity and data.
slice(a, offset, count) ==
  [datatype |-> a.datatype,
   selection2 |-> Some(IF a.selection2.some
                         THEN slice_unchecked(a.selection2.v, offset, count)
                         ELSE with_range(offset, offset + count)),
   validity2 |-> a.validity2,
   data2 |-> a.data2,
   next |-> NoNext]

\* Array::try_slice succeeds.
try_slice_ok(a, offset, count) == offset + count <= logical_len(a)

\* Element types of the sliced arrays.
SliceTypes == {"Int32", "Utf8"}

FromIterSlice == FromIterIn(SliceTypes)

FromIterOptSlice == FromIterOptIn(SliceTypes)

\* Array::try_slice; the caller goes on with the view it returns.  The
\* call record keeps the offset in `idx` and the count in `capacity`.
TrySlice ==
  \E offset \in 0..(MaxLen + 1), count \in 0..(MaxLen + 1) :
    /\ res.op = "idle"
    /\ arr' = IF try_slice_ok(arr, offset, count) THEN slice(arr, offset, count)
              ELSE arr
    /\ res' = [Call("try_slice", arr,
                    IF try_slice_ok(arr, offset, count) THEN Unit
                    ELSE Err("Slice out of bounds"))
                 EXCEPT !.idx = offset, !.capacity = count]
    /\ UNCHANGED kernelVars

\* Slices of arrays with and without a selection.
NextSlice ==
  \/ FromIterSlice
  \/ FromIterOptSlice
  \/ SelectMut2
  \/ TrySlice
  \/ Return

SpecSlice == Init /\ [][NextSlice]_vars

\* C16: for offset + count <= logical_len, the slice has logical length
\* count and its row i reads what row offset + i of the original reads,
\* over the same data and validity, with or without a selection on the
\* original; try_slice returns 'Slice out of bounds' when offset + count
\* exceeds the logical length.
C16_Slice ==
  res.op = "try_slice" =>
    IF res.idx + res.capacity <= logical_len(res.before)
      THEN /\ res.out = Unit
           /\ logical_len(arr) = res.capacity
           /\ \A i \in 0..(res.capacity - 1) :
                logical_value(arr, i) = logical_value(res.before, res.idx + i)
           /\ arr.data2 = res.before.data2
           /\ arr.validity2 = res.before.validity2
           /\ arr.datatype = res.before.datatype
      ELSE /\ res.out = Err("Slice out of bounds")
           /\ arr = res.before

\* C16 witness: a slice at a non-zero offset of an array whose selection
\* is not the identity, reading rows that differ.
C16_Witness ==
  /\ res.op = "try_slice" /\ res.out = Unit
  /\ res.before.selection2.some
  /\ res.idx > 0 /\ res.capacity > 0
  /\ At(res.before.selection2.v, res.idx) # res.idx
  /\ logical_value(arr, 0).kind = "Ok"
  /\ logical_value(arr, 0) # logical_value(res.before, 0)

(* =================== arithmetic functions (arith.rs) =================== *)
\* The datatype pairs Add, Sub and Div of arith.rs accept; the planned
\* function returns the left datatype.
ArithPlanPairs == DivPlanPairs \cup DecimalPairs

\* Add::plan_from_datatypes
Add_plan_from_datatypes(ta, tb) ==
  IF <<ta, tb>> \in ArithPlanPairs
    THEN [ok |-> TRUE, datatype |-> ta]
    ELSE [ok |-> FALSE, datatype |-> "Null"]

\* Sub::plan_from_datatypes
Sub_plan_from_datatypes(ta, tb) ==
  IF <<ta, tb>> \in ArithPlanPairs
    THEN [ok |-> TRUE, datatype |-> ta]
    ELSE [ok |-> FALSE, datatype |-> "Null"]

\* Div::plan_from_datatypes of arith.rs: the decimal pairs are planned
\* like every other pair, with the left datatype as the return type.
arith_Div_plan_from_datatypes(ta, tb) ==
  IF <<ta, tb>> \in ArithPlanPairs
    THEN [ok |-> TRUE, datatype |-> ta]
    ELSE [ok |-> FALSE, datatype |-> "Null"]

\* Mul::plan_from_datatypes
Mul_plan_from_datatypes(ta, tb) ==
  IF <<ta, tb>> \in ArithPlanPairs \cup {<<"Interval", "Int64">>}
    THEN [ok |-> TRUE, datatype |-> ta]
    ELSE [ok |-> FALSE, datatype |-> "Null"]

\* The builds of the binary: with overflow checks (debug) an integer
\* `+`, `-` or `*` that overflows panics, without them (release) it wraps.
Builds == {"debug", "release"}

\* An integer `+`, `-` or `*` whose exact result is `exact`.
overflowing(phys, build, exact) ==
  IF phys \notin IntegerTypes \/ in_range(phys, exact)
    THEN [panic |-> FALSE, v |-> exact]
  ELSE IF build = "debug"
    THEN [panic |-> TRUE, v |-> ZZero]
    ELSE [panic |-> FALSE, v |-> wrapping(phys, exact)]

\* a.checked_mul(b).unwrap_or(0)
checked_mul_or_zero(phys, x, y) ==
  [panic |-> FALSE,
   v |-> IF in_range(phys, ZMul(x, y)) THEN ZMul(x, y) ELSE ZZero]

\* The closures of the arms of arith.rs, applied to the two slots.  In the
\* Date32 arms the right slot is an i64 cast with `as i32`.
arith_closure(op, phys, build, x, y) ==
  CASE op = "add" -> overflowing(phys, build, ZAdd(x, y))
    [] op = "sub" -> overflowing(phys, build, ZSub(x, y))
    [] op = "mul" -> overflowing(phys, build, ZMul(x, y))
    [] op = "add_as_i32" -> overflowing(phys, build, ZAdd(x, wrapping("Int32", y)))
    [] op = "sub_as_i32" -> overflowing(phys, build, ZSub(x, wrapping("Int32", y)))
    [] op = "checked_mul" -> checked_mul_or_zero(phys, x, y)
    [] op = "div" -> div_closure(phys, x, y)
    [] OTHER -> rem_closure(phys, x, y)

\* primitive_binary_execute! and primitive_binary_execute_no_wrap!: the
\* closure runs on every row valid on both sides, a row NULL on either side
\* is NULL in the output, and the output is a primitive array of the named
\* variant with as many rows as the inputs.
primitive_binary_execute(first, second, variant, op, build) ==
  LET n == logical_len(first)
      phys == datatype_physical_type(variant)
      null(i) == executor_is_null(first, i) \/ executor_is_null(second, i)
      cell(i) == arith_closure(op, phys, build,
                     At(first.data2.vals, executor_row(first, i)),
                     At(second.data2.vals, executor_row(second, i)))
  IN IF logical_len(first) # logical_len(second)
       THEN ExecErr("Differing lengths")
     ELSE IF \E i \in 0..(n - 1) : ~null(i) /\ cell(i).panic
       THEN ExecPanic("arithmetic overflow or division by zero")
     ELSE ExecOk([datatype |-> variant,
                  selection2 |-> None,
                  validity2 |-> IF \E i \in 0..(n - 1) : null(i)
                                  THEN Some([k \in 1..n |-> ~null(k - 1)])
                                  ELSE None,
                  data2 |-> ArrayData2(physical_storage_variant(phys),
                              [k \in 1..n |-> IF null(k - 1) THEN ZZero
                                                ELSE cell(k - 1).v]),
                  next |-> NoNext])

\* The precision and scale a decimal array carries.
DecimalTypeMeta(precision, scale) == [precision |-> precision, scale |-> scale]

\* Decimal64Array::new / Decimal128Array::new around the primitive values
\* an execution produced.
DecimalArray_new(variant, meta, r) ==
  IF r.kind # "Ok" THEN r
  ELSE ExecOk([datatype |-> variant,
               meta |-> meta,
               selection2 |-> r.out.selection2,
               validity2 |-> r.out.validity2,
               data2 |-> r.out.data2,
               next |-> NoNext])

\* The primitive variants Add, Sub, Mul and Div of arith.rs have an arm
\* for.
ArithPrimitiveVariants ==
  {"Int8", "Int16", "Int32", "Int64", "UInt8", "UInt16", "UInt32", "UInt64",
   "Float32", "Float64"}

\* AddImpl::execute and SubImpl::execute, which differ in the closure
\* only: `op` is "add" or "sub".
add_sub_execute(op, build, first, second) ==
  LET va == first.datatype
      vb == second.datatype
  IN IF va = vb /\ va \in ArithPrimitiveVariants
       THEN primitive_binary_execute(first, second, va, op, build)
     ELSE IF <<va, vb>> \in DecimalPairs
       THEN DecimalArray_new(va, first.meta,
              primitive_binary_execute(first, second, datatype_physical_type(va),
                                       op, build))
     ELSE IF va = "Date32" /\ vb = "Int64"
       THEN primitive_binary_execute(first, second, "Date32",
              IF op = "add" THEN "add_as_i32" ELSE "sub_as_i32", build)
       ELSE ExecPanic("unexpected array type")

\* AddImpl::execute
AddImpl_execute(build, first, second) == add_sub_execute("add", build, first, second)

\* SubImpl::execute with the two arrays exchanged.
SubImpl_execute_swapped(build, first, second) ==
  add_sub_execute("sub", build, second, first)

\* SubImpl::execute
SubImpl_execute(build, first, second) == add_sub_execute("sub", build, first, second)

\* MulImpl::execute: the decimal arms multiply with checked_mul and put 0
\* where it overflows.  (The Interval arm is left out: no Interval array is
\* built here.)
MulImpl_execute(build, first, second) ==
  LET va == first.datatype
      vb == second.datatype
  IN IF va = vb /\ va \in ArithPrimitiveVariants
       THEN primitive_binary_execute(first, second, va, "mul", build)
     ELSE IF <<va, vb>> \in DecimalPairs
       THEN DecimalArray_new(va, first.meta,
              primitive_binary_execute(first, second, datatype_physical_type(va),
                                       "checked_mul", build))
       ELSE ExecPanic("unexpected array type")

\* DivImpl::execute of arith.rs: the decimal arms divide the raw integers
\* into a decimal array of the left precision and scale.
arith_DivImpl_execute(build, first, second) ==
  LET va == first.datatype
      vb == second.datatype
  IN IF va = vb /\ va \in ArithPrimitiveVariants
       THEN primitive_binary_execute(first, second, va, "div", build)
     ELSE IF <<va, vb>> \in DecimalPairs
       THEN DecimalArray_new(va, first.meta,
              primitive_binary_execute(first, second, datatype_physical_type(va),
                                       "div", build))
       ELSE ExecPanic("unexpected array type")

(* -------------------------- arithmetic actions ------------------------- *)
\* Datatypes of the arithmetic inputs.
ArithTypes ==
  {"Int8", "UInt8", "Int32", "Int64", "Decimal64", "Decimal128", "Date32"}

\* 2^31 - 1, 2^63 - 1 and 2^127 - 1
MaxI32 == int_MAX("Int32")
MaxI64 == int_MAX("Int64")
MaxI128 == int_MAX("Int128")

\* Values of each datatype: small ones, the ends of the range, and for
\* Int64 values outside the i32 range.
ArithVals(t) ==
  CASE t = "Int8" -> {ZFromInt(-128), ZFromInt(-1), ZFromInt(3)}
    [] t = "UInt8" -> {ZFromInt(0), ZFromInt(2), ZFromInt(255)}
    [] t = "Int32" -> {ZFromInt(2), ZFromInt(5), MaxI32}
    [] t = "Int64" -> {ZFromInt(-1), ZAdd(MaxI32, ZFromInt(1)), ZAdd(ZPow2(32), ZFromInt(1))}
    [] t = "Decimal64" -> {ZFromInt(-3), ZPow2(32), MaxI64}
    [] t = "Decimal128" -> {ZFromInt(-3), ZPow2(64), MaxI128}
    [] OTHER -> {ZFromInt(0), ZFromInt(1), MaxI32}

\* Precision and scale of the decimal inputs.
DecimalMetas == {DecimalTypeMeta(10, 2), DecimalTypeMeta(18, 0)}

\* The metas of the two inputs: two decimal arrays differ in precision and
\* scale, so that the side a result takes them from shows.
ArithMetas(ta, tb) ==
  IF <<ta, tb>> \in DecimalPairs
    THEN {m \in DecimalMetas \X DecimalMetas : m[1] # m[2]}
    ELSE {<<DecimalTypeMeta(0, 0), DecimalTypeMeta(0, 0)>>}

\* An all-valid array of a datatype over its physical storage.
arith_array(t, meta, vals) ==
  [datatype |-> t,
   meta |-> meta,
   selection2 |-> None,
   validity2 |-> None,
   data2 |-> ArrayData2(physical_storage_variant(datatype_physical_type(t)), vals),
   next |-> NoNext]

\* Add::plan_from_datatypes, in a binary of either build.
AddPlan ==
  \E ta \in ArithTypes, tb \in ArithTypes, build \in Builds :
    /\ kplan.stage = "idle"
    /\ kplan' = [PlanOf("Add", ta, tb, Add_plan_from_datatypes(ta, tb))
                   EXCEPT !.build = build]
    /\ kout' = IF kplan'.ok THEN NoOut ELSE ExecErr("invalid input types")
    /\ UNCHANGED <<ka, kb>>
    /\ UNCHANGED arrayVars

\* Sub::plan_from_datatypes
SubPlan ==
  \E ta \in ArithTypes, tb \in ArithTypes, build \in Builds :
    /\ kplan.stage = "idle"
    /\ kplan' = [PlanOf("Sub", ta, tb, Sub_plan_from_datatypes(ta, tb))
                   EXCEPT !.build = build]
    /\ kout' = IF kplan'.ok THEN NoOut ELSE ExecErr("invalid input types")
    /\ UNCHANGED <<ka, kb>>
    /\ UNCHANGED arrayVars

\* Mul::plan_from_datatypes
MulPlan ==
  \E ta \in ArithTypes, tb \in ArithTypes, build \in Builds :
    /\ kplan.stage = "idle"
    /\ kplan' = [PlanOf("Mul", ta, tb, Mul_plan_from_datatypes(ta, tb))
                   EXCEPT !.build = build]
    /\ kout' = IF kplan'.ok THEN NoOut ELSE ExecErr("invalid input types")
    /\ UNCHANGED <<ka, kb>>
    /\ UNCHANGED arrayVars

\* Datatypes Div of arith.rs is planned on: the 128-bit quotients are left
\* to the 64-bit ones, which take the same arms.
ArithDivTypes == ArithTypes \ {"Decimal128"}

\* Div::plan_from_datatypes of arith.rs
ArithDivPlan ==
  \E ta \in ArithDivTypes, tb \in ArithDivTypes :
    /\ kplan.stage = "idle"
    /\ kplan' = PlanOf("arith::Div", ta, tb, arith_Div_plan_from_datatypes(ta, tb))
    /\ kout' = IF kplan'.ok THEN NoOut ELSE ExecErr("invalid input types")
    /\ UNCHANGED <<ka, kb>>
    /\ UNCHANGED arrayVars

\* Div::plan_from_datatypes of arith/div.rs on the arithmetic datatypes
DivPlanArith ==
  \E ta \in ArithTypes, tb \in ArithTypes :
    /\ kplan.stage = "idle"
    /\ kplan' = PlanOf("Div", ta, tb, Div_plan_from_datatypes(ta, tb))
    /\ kout' = IF kplan'.ok THEN NoOut ELSE ExecErr("invalid input types")
    /\ UNCHANGED <<ka, kb>>
    /\ UNCHANGED arrayVars

\* Rem::plan_from_datatypes on the arithmetic datatypes
RemPlanArith ==
  \E ta \in ArithTypes, tb \in ArithTypes :
    /\ kplan.stage = "idle"
    /\ kplan' = PlanOf("Rem", ta, tb, Rem_plan_from_datatypes(ta, tb))
    /\ kout' = IF kplan'.ok THEN NoOut ELSE ExecErr("invalid input types")
    /\ UNCHANGED <<ka, kb>>
    /\ UNCHANGED arrayVars

\* Two all-valid arrays of the planned datatypes and of one length are
\* built.
ArithInputs ==
  \E n \in 0..MaxLen :
    \E va \in [1..n -> ArithVals(kplan.inputs[1])],
       vb \in [1..n -> ArithVals(kplan.inputs[2])],
       m \in ArithMetas(kplan.inputs[1], kplan.inputs[2]) :
      /\ kplan.stage = "planned"
      /\ ka' = arith_array(kplan.inputs[1], m[1], va)
      /\ kb' = arith_array(kplan.inputs[2], m[2], vb)
      /\ kplan' = [kplan EXCEPT !.stage = "built"]
      /\ kout' = NoOut
      /\ UNCHANGED arrayVars

\* AddImpl::execute on the two arrays.
AddExecute ==
  /\ kplan.stage = "built"
  /\ kplan.fn = "Add"
  /\ kout' = AddImpl_execute(kplan.build, ka, kb)
  /\ kplan' = [kplan EXCEPT !.stage = "done"]
  /\ UNCHANGED <<ka, kb>>
  /\ UNCHANGED arrayVars

\* SubImpl::execute on the two arrays.
SubExecute ==
  /\ kplan.stage = "built"
  /\ kplan.fn = "Sub"
  /\ kout' = SubImpl_execute(kplan.build, ka, kb)
  /\ kplan' = [kplan EXCEPT !.stage = "done"]
  /\ UNCHANGED <<ka, kb>>
  /\ UNCHANGED arrayVars

\* MulImpl::execute on the two arrays.
MulExecute ==
  /\ kplan.stage = "built"
  /\ kplan.fn = "Mul"
  /\ kout' = MulImpl_execute(kplan.build, ka, kb)
  /\ kplan' = [kplan EXCEPT !.stage = "done"]
  /\ UNCHANGED <<ka, kb>>
  /\ UNCHANGED arrayVars

\* DivImpl::execute of arith.rs on the two arrays.
ArithDivExecute ==
  /\ kplan.stage = "built"
  /\ kplan.fn = "arith::Div"
  /\ kout' = arith_DivImpl_execute(kplan.build, ka, kb)
  /\ kplan' = [kplan EXCEPT !.stage = "done"]
  /\ UNCHANGED <<ka, kb>>
  /\ UNCHANGED arrayVars

\* Planning and execution of the arithmetic functions over two arrays.
NextArith ==
  \/ AddPlan
  \/ SubPlan
  \/ MulPlan
  \/ ArithDivPlan
  \/ DivPlanArith
  \/ RemPlanArith
  \/ ArithInputs
  \/ AddExecute
  \/ SubExecute
  \/ MulExecute
  \/ ArithDivExecute
  \/ DivExecute
  \/ RemExecute
  \/ KernelReturn

SpecArith == Init /\ [][NextArith]_vars

(* ======================== properties: arithmetic ======================= *)
\* Slot i of an array without a selection.
Slot(a, i) == At(a.data2.vals, i)

\* The exact result of a function on two integers.
ExactFn(fn, x, y) ==
  CASE fn = "Add" -> ZAdd(x, y)
    [] fn = "Sub" -> ZSub(x, y)
    [] fn = "Mul" -> ZMul(x, y)
    [] fn = "Rem" -> ZRem(x, y)
    [] OTHER -> ZDiv(x, y)

\* The operation on x and y has a result in the integer type: the sum,
\* difference or product is in range, the divisor is not zero, and the
\* division is not T::MIN by -1, which the machine counts as an overflow
\* of the quotient and of the remainder alike.
NoOverflow(fn, phys, x, y) ==
  IF fn \in {"Add", "Sub", "Mul"}
    THEN in_range(phys, ExactFn(fn, x, y))
    ELSE y # ZZero /\ ~(int_signed(phys) /\ x = int_MIN(phys) /\ y = ZFromInt(-1))

ArithFns == {"Add", "Sub", "Mul", "Div", "arith::Div", "Rem"}

\* C17: Add, Sub, Mul, Div and Rem planned on a same-width integer pair and
\* executed on two all-valid arrays of n rows whose operands neither
\* overflow nor divide by zero return an all-valid array of n rows of the
\* left datatype whose row i is a[i] op b[i].
C17_IntegerArithmetic ==
  (/\ Executed
   /\ kplan.fn \in ArithFns
   /\ kplan.inputs[1] = kplan.inputs[2]
   /\ kplan.inputs[1] \in IntegerTypes
   /\ \A i \in 0..(logical_len(ka) - 1) :
        NoOverflow(kplan.fn, kplan.inputs[1], Slot(ka, i), Slot(kb, i)))
    => /\ kout.kind = "Ok"
       /\ kplan.datatype = kplan.inputs[1]
       /\ kout.out.datatype = ka.datatype
       /\ logical_len(kout.out) = logical_len(ka)
       /\ \A i \in 0..(logical_len(ka) - 1) :
            /\ ~RowNull(kout.out, i)
            /\ Slot(kout.out, i) = ExactFn(kplan.fn, Slot(ka, i), Slot(kb, i))

\* C17 witness: rem([-128, 3], [3, -1]) = [-2, 0] on Int8, the remainder
\* taking the sign of the dividend.
C17_Witness ==
  /\ Executed /\ kplan.fn = "Rem" /\ kout.kind = "Ok"
  /\ ka.datatype = "Int8"
  /\ ka.data2.vals = <<ZFromInt(-128), ZFromInt(3)>>
  /\ kb.data2.vals = <<ZFromInt(3), ZFromInt(-1)>>
  /\ kout.out.data2.vals = <<ZFromInt(-2), ZFromInt(0)>>

\* Two Float64 values stand for the same number.
F64Eq(p, q) == ZMul(p.num, q.den) = ZMul(q.num, p.den)

\* The quotient of two decimal values as a number: raw values x and y
\* under scales sx and sy.
DecimalQuotient(x, sx, y, sy) == F64(ZMul(x, ZPow10(sy)), ZMul(y, ZPow10(sx)))

\* C18: '/' planned on two Decimal64 or two Decimal128 datatypes has the
\* return type Float64, and executes to a Float64 array of the row-wise
\* quotients of the decimal values.
C18_DecimalDivIsFloat64 ==
  (/\ kplan.fn \in {"Div", "arith::Div"}
   /\ kplan.ok
   /\ kplan.inputs \in DecimalPairs)
    => /\ kplan.datatype = "Float64"
       /\ kplan.stage = "done" =>
            /\ kout.kind = "Ok"
            /\ kout.out.datatype = "Float64"
            /\ logical_len(kout.out) = logical_len(ka)
            /\ \A i \in 0..(logical_len(ka) - 1) :
                 F64Eq(Slot(kout.out, i),
                       DecimalQuotient(Slot(ka, i), ka.meta.scale,
                                       Slot(kb, i), kb.meta.scale))

\* C19: Add, Sub and Mul on two Decimal64 or two Decimal128 arrays return
\* a decimal array of the left precision and scale whose raw value at i is
\* a[i] op b[i] on the raw integers; for Mul a product that overflows the
\* storage width is 0.
C19_DecimalArithmetic ==
  (/\ Executed
   /\ kplan.fn \in {"Add", "Sub", "Mul"}
   /\ kplan.inputs \in DecimalPairs)
    => /\ kout.kind = "Ok"
       /\ kout.out.datatype = ka.datatype
       /\ kout.out.meta = ka.meta
       /\ logical_len(kout.out) = logical_len(ka)
       /\ \A i \in 0..(logical_len(ka) - 1) :
            LET exact == ExactFn(kplan.fn, Slot(ka, i), Slot(kb, i))
            IN Slot(kout.out, i) =
                 IF kplan.fn = "Mul" /\ ~in_range(datatype_physical_type(ka.datatype), exact)
                   THEN ZZero ELSE exact

\* b truncated to 32 bits: b mod 2^32 read as a signed i32.
TruncatedI32(b) ==
  LET m == ZRem(ZAdd(ZRem(b, ZPow2(32)), ZPow2(32)), ZPow2(32))
  IN IF ZLe(m, MaxI32) THEN m ELSE ZSub(m, ZPow2(32))

\* C20: Add and Sub on (Date32, Int64) return a Date32 array whose value
\* at i is a[i] + t or a[i] - t for t the right value truncated to 32 bits;
\* a right value outside the i32 range is not an error.
C20_DateArithmetic ==
  (/\ Executed
   /\ kplan.fn \in {"Add", "Sub"}
   /\ kplan.inputs = <<"Date32", "Int64">>)
    => /\ kout.kind = "Ok"
       /\ kout.out.datatype = "Date32"
       /\ logical_len(kout.out) = logical_len(ka)
       /\ \A i \in 0..(logical_len(ka) - 1) :
            Slot(kout.out, i) =
              ExactFn(kplan.fn, Slot(ka, i), TruncatedI32(Slot(kb, i)))

(* ===================== planning from the inputs ======================== *)
\* The largest number of inputs handed to a planner.
MaxArgs == 3

\* Datatypes of the inputs handed to a planner.
PlanTypes ==
  {"Int64", "Utf8", "Binary", "Date32", "Decimal64", "Decimal128", "Interval"}

\* The functions planned from a list of inputs: Add, Sub, Mul, Div and Rem
\* of arith.rs, Div of arith/div.rs and the three length functions.
LengthFns == {"length", "byte_length", "bit_length"}

PlanFns == {"Add", "Sub", "Mul", "arith::Div", "Rem", "Div"} \cup LengthFns

\* Outcomes of planning: a planned function with its return type, a
\* returned error with the datatypes it names, or a panic.
PlanOk(datatype) ==
  [ok |-> TRUE, datatype |-> datatype, err |-> "none", types |-> <<>>]

PlanErr(err, types) ==
  [ok |-> FALSE, datatype |-> "Null", err |-> err, types |-> types]

PlanPanic == PlanErr("panic", <<>>)

\* plan_check_num_args(func, inputs, expected)
plan_check_num_args(inputs, expected) ==
  IF Len(inputs) # expected THEN Err("arity") ELSE Unit

\* invalid_input_types_error(func, got)
invalid_input_types_error(got) == PlanErr("invalid input types", got)

\* `match (&inputs[0], &inputs[1])` of the planners of two datatypes:
\* indexing past the end of the slice panics.
binary_plan_match(fn, inputs) ==
  IF Len(inputs) < 2
    THEN PlanPanic
    ELSE LET a == At(inputs, 0)
             b == At(inputs, 1)
             p == CASE fn = "Add" -> Add_plan_from_datatypes(a, b)
                    [] fn = "Sub" -> Sub_plan_from_datatypes(a, b)
                    [] fn = "Mul" -> Mul_plan_from_datatypes(a, b)
                    [] fn = "arith::Div" -> arith_Div_plan_from_datatypes(a, b)
                    [] fn = "Rem" -> Rem_plan_from_datatypes(a, b)
                    [] OTHER -> Div_plan_from_datatypes(a, b)
         IN IF p.ok THEN PlanOk(p.datatype)
                    ELSE invalid_input_types_error(<<a, b>>)

\* `match inputs[0].datatype(table_list)?` of Length::plan, ByteLength::plan
\* and BitLength::plan.
length_plan_match(fn, inputs) ==
  IF Len(inputs) < 1
    THEN PlanPanic
    ELSE LET a == At(inputs, 0)
         IN IF a = "Utf8" \/ (a = "Binary" /\ fn # "length")
              THEN PlanOk("Int64")
              ELSE invalid_input_types_error(<<a>>)

\* The body of a planner after its arity check.
plan_match(fn, inputs) ==
  IF fn \in LengthFns THEN length_plan_match(fn, inputs)
                      ELSE binary_plan_match(fn, inputs)

\* The number of inputs each planner passes to plan_check_num_args.
plan_num_args(fn) == IF fn \in LengthFns THEN 1 ELSE 2

\* plan_from_datatypes / plan: the arity check, with `?`, then the match.
ScalarFunction_plan(fn, inputs) ==
  IF plan_check_num_args(inputs, plan_num_args(fn)).kind = "Err"
    THEN PlanErr("arity", <<>>)
    ELSE plan_match(fn, inputs)

\* A function is planned from a list of inputs of any length.
PlanFromInputs ==
  \E fn \in PlanFns, inputs \in SeqsUpTo(PlanTypes, MaxArgs) :
    LET p == ScalarFunction_plan(fn, inputs)
    IN /\ kplan.stage = "idle"
       /\ kplan' = [stage |-> "done", fn |-> fn, ok |-> p.ok,
                    datatype |-> p.datatype, inputs |-> inputs,
                    build |-> "release", err |-> p.err, types |-> p.types]
       /\ kout' = IF p.ok THEN NoOut
                  ELSE IF p.err = "panic" THEN ExecPanic("index out of bounds")
                  ELSE ExecErr(p.err)
       /\ UNCHANGED <<ka, kb>>
       /\ UNCHANGED arrayVars

NextPlan ==
  \/ PlanFromInputs
  \/ KernelReturn

SpecPlan == Init /\ [][NextPlan]_vars

\* The inputs each planner accepts, as its match arms list them.
SupportedInputs(fn) ==
  CASE fn \in {"Add", "Sub", "arith::Div"} -> ArithPlanPairs
    [] fn = "Mul" -> ArithPlanPairs \cup {<<"Interval", "Int64">>}
    [] fn = "Rem" -> DivPlanPairs \cup {<<"Interval", "Int64">>}
    [] fn = "Div" -> DivPlanPairs \cup DecimalPairs
    [] fn = "length" -> {<<"Utf8">>}
    [] OTHER -> {<<"Utf8">>, <<"Binary">>}

\* A planner has returned from a list of inputs.
PlannedFromInputs == kplan.stage = "done" /\ "err" \in DOMAIN kplan

\* C21: a planner given a number of inputs other than its arity returns an
\* arity error and never indexes the inputs (no panic); given inputs of the
\* right number but of an unsupported datatype combination it returns the
\* invalid-input-types error naming those datatypes; in both cases no
\* function is planned.
C21_PlanningErrors ==
  PlannedFromInputs =>
    /\ Len(kplan.inputs) # plan_num_args(kplan.fn) =>
         /\ ~kplan.ok
         /\ kplan.err = "arity"
         /\ kout.kind = "Err"
    /\ (/\ Len(kplan.inputs) = plan_num_args(kplan.fn)
        /\ kplan.inputs \notin SupportedInputs(kplan.fn)) =>
         /\ ~kplan.ok
         /\ kplan.err = "invalid input types"
         /\ kplan.types = kplan.inputs
         /\ kout.kind = "Err"

\* A length function planned from no inputs at all returned the arity error.
C21_Witness ==
  /\ PlannedFromInputs
  /\ kplan.fn = "length"
  /\ kplan.inputs = <<>>
  /\ kplan.err = "arity"
  /\ kout.kind = "Err"

(* ================== string lengths (string/length.rs) ================== *)
\* Strings as sequences of Unicode scalar values: the empty string, "a",
\* U+1F600 followed by "ab", and U+00E9 U+20AC; between them scalar values
\* of one, two, three and four UTF-8 bytes.
Strings == {<<>>, <<97>>, <<128512, 97, 98>>, <<233, 8364>>}

\* char::encode_utf8
encode_utf8(ch) ==
  IF ch < 128 THEN <<ch>>
  ELSE IF ch < 2048 THEN <<192 + (ch \div 64), 128 + (ch % 64)>>
  ELSE IF ch < 65536
    THEN <<224 + (ch \div 4096), 128 + ((ch \div 64) % 64), 128 + (ch % 64)>>
    ELSE <<240 + (ch \div 262144), 128 + ((ch \div 4096) % 64),
           128 + ((ch \div 64) % 64), 128 + (ch % 64)>>

\* The UTF-8 bytes of a string, as a Utf8 array stores them.
RECURSIVE String_from(_)
String_from(chars) ==
  IF chars = <<>> THEN <<>>
  ELSE encode_utf8(Head(chars)) \o String_from(Tail(chars))

\* <[u8]>::len
bytes_len(bytes) == Len(bytes)

\* str::chars().count(): the bytes that start a scalar value, which are
\* the bytes other than the continuation bytes 10xxxxxx.
chars_count(bytes) == Cardinality({k \in 1..Len(bytes) : bytes[k] \div 64 # 2})

\* The closures of the three kernels on one slot: `v.chars().count() as
\* i64`, `v.len() as i64` and `(v.len() * 8) as i64`.
length_closure(op, v) ==
  CASE op = "length" -> ZFromInt(chars_count(v))
    [] op = "byte_length" -> ZFromInt(bytes_len(v))
    [] OTHER -> ZFromInt(bytes_len(v) * 8)

\* UnaryExecutor::execute into an Int64 builder of input.logical_len()
\* rows: row i of the output is NULL when logical row i of the input is,
\* and otherwise holds what the closure computes from the slot the
\* selection names.
UnaryExecutor_execute(input, datatype, op) ==
  LET n == logical_len(input)
      null(i) == executor_is_null(input, i)
      cell(i) == length_closure(op, At(input.data2.vals, executor_row(input, i)))
  IN ExecOk([datatype |-> datatype,
             selection2 |-> None,
             validity2 |-> IF \E i \in 0..(n - 1) : null(i)
                             THEN Some([k \in 1..n |-> ~null(k - 1)])
                             ELSE None,
             data2 |-> ArrayData2(datatype,
                         [k \in 1..n |-> IF null(k - 1) THEN ZZero
                                           ELSE cell(k - 1)]),
             next |-> NoNext])

\* StrLengthImpl::execute
StrLengthImpl_execute(input) == UnaryExecutor_execute(input, "Int64", "length")

\* ByteLengthImpl::execute
ByteLengthImpl_execute(input) ==
  UnaryExecutor_execute(input, "Int64", "byte_length")

\* BitLengthImpl::execute
BitLengthImpl_execute(input) ==
  UnaryExecutor_execute(input, "Int64", "bit_length")

(* ------------------------ string length actions ------------------------ *)
\* Datatypes of the input of a length function.
LengthTypes == {"Utf8", "Binary", "Int64"}

\* Length::plan, ByteLength::plan, BitLength::plan on one input.
LengthPlan ==
  \E fn \in LengthFns, t \in LengthTypes :
    LET p == ScalarFunction_plan(fn, <<t>>)
    IN /\ kplan.stage = "idle"
       /\ kplan' = [stage |-> IF p.ok THEN "planned" ELSE "done",
                    fn |-> fn, ok |-> p.ok, datatype |-> p.datatype,
                    inputs |-> <<t, t>>, build |-> "release"]
       /\ kout' = IF p.ok THEN NoOut ELSE ExecErr(p.err)
       /\ UNCHANGED <<ka, kb>>
       /\ UNCHANGED arrayVars

\* Option<String> values.
OptStrings == {None} \cup {Some(String_from(chars)) : chars \in Strings}

\* An array of strings, NULL rows holding the empty string.
utf8_array(t, ostrs) ==
  [from_iter(t, [k \in 1..Len(ostrs) |->
                   IF ostrs[k].some THEN ostrs[k].v ELSE <<>>])
     EXCEPT !.validity2 = Some([k \in 1..Len(ostrs) |-> ostrs[k].some])]

\* The input array of the planned datatype is built from strings, with or
\* without a selection on top.
StringInputs ==
  \E ostrs \in SeqsUpTo(OptStrings, MaxLen) :
    /\ kplan.stage = "planned"
    /\ kplan.fn \in LengthFns
    /\ \/ ka' = utf8_array(kplan.inputs[1], ostrs)
       \/ \E sel \in SelectionsWithin(Len(ostrs)) :
            ka' = select_mut2(utf8_array(kplan.inputs[1], ostrs), sel)
    /\ kplan' = [kplan EXCEPT !.stage = "built"]
    /\ UNCHANGED <<kb, kout>>
    /\ UNCHANGED arrayVars

\* StrLengthImpl::execute on the array.
LengthExecute ==
  /\ kplan.stage = "built"
  /\ kplan.fn = "length"
  /\ kout' = StrLengthImpl_execute(ka)
  /\ kplan' = [kplan EXCEPT !.stage = "done"]
  /\ UNCHANGED <<ka, kb>>
  /\ UNCHANGED arrayVars

\* ByteLengthImpl::execute on the array.
ByteLengthExecute ==
  /\ kplan.stage = "built"
  /\ kplan.fn = "byte_length"
  /\ kout' = ByteLengthImpl_execute(ka)
  /\ kplan' = [kplan EXCEPT !.stage = "done"]
  /\ UNCHANGED <<ka, kb>>
  /\ UNCHANGED arrayVars

\* BitLengthImpl::execute on the array.
BitLengthExecute ==
  /\ kplan.stage = "built"
  /\ kplan.fn = "bit_length"
  /\ kout' = BitLengthImpl_execute(ka)
  /\ kplan' = [kplan EXCEPT !.stage = "done"]
  /\ UNCHANGED <<ka, kb>>
  /\ UNCHANGED arrayVars

NextLength ==
  \/ LengthPlan
  \/ StringInputs
  \/ LengthExecute
  \/ ByteLengthExecute
  \/ BitLengthExecute
  \/ KernelReturn

SpecLength == Init /\ [][NextLength]_vars

(* ----------------------- string length properties ---------------------- *)
\* char::len_utf8: the number of bytes UTF-8 spends on a scalar value.
len_utf8(ch) ==
  IF ch < 128 THEN 1 ELSE IF ch < 2048 THEN 2 ELSE IF ch < 65536 THEN 3 ELSE 4

\* The number of UTF-8 bytes of a string.
RECURSIVE Utf8Bytes(_)
Utf8Bytes(chars) ==
  IF chars = <<>> THEN 0 ELSE len_utf8(Head(chars)) + Utf8Bytes(Tail(chars))

\* What each function is to return for the string s.
LengthOf(fn, chars) ==
  CASE fn = "length" -> Len(chars)
    [] fn = "byte_length" -> Utf8Bytes(chars)
    [] OTHER -> 8 * Utf8Bytes(chars)

\* A length function has run on a Utf8 array.
LengthDone ==
  /\ kplan.stage = "done"
  /\ kplan.fn \in LengthFns
  /\ kplan.ok
  /\ kplan.inputs[1] = "Utf8"

\* C22: on a Utf8 array, length returns the number of Unicode scalar values
\* of each string, byte_length its number of UTF-8 bytes and bit_length
\* eight times that; all three are planned with and return Int64, the
\* output has one row per logical row of the input, and a row of the output
\* is NULL exactly when that row of the input is.
C22_StringLengths ==
  LengthDone =>
    /\ kplan.datatype = "Int64"
    /\ kout.kind = "Ok"
    /\ kout.out.datatype = "Int64"
    /\ logical_len(kout.out) = logical_len(ka)
    /\ \A i \in 0..(logical_len(ka) - 1) :
         /\ executor_is_null(kout.out, i) <=> executor_is_null(ka, i)
         /\ ~executor_is_null(ka, i) =>
              \A chars \in Strings :
                Slot(ka, executor_row(ka, i)) = String_from(chars) =>
                  Slot(kout.out, i) = ZFromInt(LengthOf(kplan.fn, chars))

\* length has run on a selection over a NULL row and the string U+1F600
\* "ab", and returned 3 for the string.
C22_Witness ==
  /\ LengthDone
  /\ kplan.fn = "length"
  /\ ka.selection2.some
  /\ \E i \in 0..(logical_len(ka) - 1) : executor_is_null(ka, i)
  /\ \E i \in 0..(logical_len(ka) - 1) :
       /\ ~executor_is_null(ka, i)
       /\ Slot(ka, executor_row(ka, i)) = <<240, 159, 152, 128, 97, 98>>
       /\ Slot(kout.out, i) = ZFromInt(3)

(* ============== l2_distance (similarity/l2_distance.rs) ================ *)
\* The list datatypes by element type, and a datatype that is no list.
L2Types == {"List(Float32)", "List(Float64)", "List(Int32)", "Float64"}

\* L2Distance::plan: two lists of the same float element type.
L2Distance_plan(inputs) ==
  IF plan_check_num_args(inputs, 2).kind = "Err"
    THEN PlanErr("arity", <<>>)
  ELSE IF /\ At(inputs, 0) = At(inputs, 1)
          /\ At(inputs, 0) \in {"List(Float16)", "List(Float32)", "List(Float64)"}
    THEN PlanOk("Float64")
    ELSE invalid_input_types_error(<<At(inputs, 0), At(inputs, 1)>>)

\* The square root `finish` takes, kept symbolic over the exact sum.
f64_sqrt(x) == [sqrt |-> x]

\* L2DistanceReducer::new: debug_assert_eq!(left_len, right_len) panics in
\* a build with debug assertions and is compiled out otherwise.
L2DistanceReducer_new(build, left_len, right_len) ==
  IF build = "debug" /\ left_len # right_len
    THEN [panic |-> TRUE, distance |-> 0]
    ELSE [panic |-> FALSE, distance |-> 0]

\* L2DistanceReducer::put_values on the first n pairs of two lists, in
\* order, starting from `distance`.
RECURSIVE L2DistanceReducer_put_values(_, _, _, _)
L2DistanceReducer_put_values(distance, l, r, n) ==
  IF n = 0 THEN distance
  ELSE L2DistanceReducer_put_values(distance, l, r, n - 1)
         + (l[n] - r[n]) * (l[n] - r[n])

\* L2DistanceReducer::finish
L2DistanceReducer_finish(distance) == f64_sqrt(distance)

\* One row of the reduction: new, put_values for each pair of elements the
\* two lists both have, finish.
binary_reduce_row(build, l, r) ==
  LET reducer == L2DistanceReducer_new(build, Len(l), Len(r))
      n == IF Len(l) < Len(r) THEN Len(l) ELSE Len(r)
  IN [panic |-> reducer.panic,
      v |-> L2DistanceReducer_finish(
              L2DistanceReducer_put_values(reducer.distance, l, r, n))]

\* The reduction of every row without a check of the list lengths.
ListExecutor_binary_reduce_any_len(a, b, datatype, build) ==
  LET n == logical_len(a)
      null(i) == executor_is_null(a, i) \/ executor_is_null(b, i)
      cell(i) == binary_reduce_row(build, At(a.data2.vals, executor_row(a, i)),
                                   At(b.data2.vals, executor_row(b, i)))
  IN IF \E i \in 0..(n - 1) : ~null(i) /\ cell(i).panic
       THEN ExecPanic("assertion failed: left == right")
     ELSE ExecOk([datatype |-> datatype,
                  selection2 |-> None,
                  validity2 |-> IF \E i \in 0..(n - 1) : null(i)
                                  THEN Some([k \in 1..n |-> ~null(k - 1)])
                                  ELSE None,
                  data2 |-> ArrayData2(datatype,
                              [k \in 1..n |-> IF null(k - 1) THEN f64_sqrt(0)
                                                ELSE cell(k - 1).v]),
                  next |-> NoNext])

\* ListExecutor::<false, false>::binary_reduce: a row is NULL when either
\* list is NULL; two lists of different lengths are an error, returned
\* before a reducer is made for the row.
ListExecutor_binary_reduce(a, b, datatype, build) ==
  LET n == logical_len(a)
      null(i) == executor_is_null(a, i) \/ executor_is_null(b, i)
      differ(i) == Len(At(a.data2.vals, executor_row(a, i)))
                     # Len(At(b.data2.vals, executor_row(b, i)))
  IN IF \E i \in 0..(n - 1) : ~null(i) /\ differ(i)
       THEN ExecErr("Cannot reduce lists with differing lengths")
       ELSE ListExecutor_binary_reduce_any_len(a, b, datatype, build)

\* L2DistanceImpl::execute
L2DistanceImpl_execute(a, b, build) ==
  ListExecutor_binary_reduce(a, b, "Float64", build)

(* -------------------------- l2_distance actions ------------------------ *)
\* L2Distance::plan, in a binary of either build.
L2Plan ==
  \E ta \in L2Types, tb \in L2Types, build \in Builds :
    LET p == L2Distance_plan(<<ta, tb>>)
    IN /\ kplan.stage = "idle"
       /\ kplan' = [stage |-> IF p.ok THEN "planned" ELSE "done",
                    fn |-> "l2_distance", ok |-> p.ok, datatype |-> p.datatype,
                    inputs |-> <<ta, tb>>, build |-> build]
       /\ kout' = IF p.ok THEN NoOut ELSE ExecErr(p.err)
       /\ UNCHANGED <<ka, kb>>
       /\ UNCHANGED arrayVars

\* Lists of floats, and Option<list> values.
Lists == {<<1>>, <<1, 1>>, <<2, 4>>}

OptLists == {None} \cup {Some(l) : l \in Lists}

\* An array of lists, NULL rows holding the empty list.
list_array(t, olists) ==
  [from_iter(t, [k \in 1..Len(olists) |->
                   IF olists[k].some THEN olists[k].v ELSE <<>>])
     EXCEPT !.validity2 = Some([k \in 1..Len(olists) |-> olists[k].some])]

\* The two list arrays, of the same number of rows, are built.
L2Inputs ==
  \E oa \in SeqsUpTo(OptLists, MaxLen), ob \in SeqsUpTo(OptLists, MaxLen) :
    /\ kplan.stage = "planned"
    /\ kplan.fn = "l2_distance"
    /\ Len(oa) = Len(ob)
    /\ ka' = list_array(kplan.inputs[1], oa)
    /\ kb' = list_array(kplan.inputs[2], ob)
    /\ kplan' = [kplan EXCEPT !.stage = "built"]
    /\ UNCHANGED kout
    /\ UNCHANGED arrayVars

\* L2DistanceImpl::execute on the two arrays.
L2Execute ==
  /\ kplan.stage = "built"
  /\ kplan.fn = "l2_distance"
  /\ kout' = L2DistanceImpl_execute(ka, kb, kplan.build)
  /\ kplan' = [kplan EXCEPT !.stage = "done"]
  /\ UNCHANGED <<ka, kb>>
  /\ UNCHANGED arrayVars

NextL2 ==
  \/ L2Plan
  \/ L2Inputs
  \/ L2Execute
  \/ KernelReturn

SpecL2 == Init /\ [][NextL2]_vars

(* ------------------------ l2_distance properties ----------------------- *)
\* l2_distance has run on two arrays.
L2Done == kplan.stage = "done" /\ kplan.fn = "l2_distance" /\ kplan.ok

\* Row i holds two lists, neither NULL, of different lengths.
LengthMismatch(i) ==
  /\ ~executor_is_null(ka, i)
  /\ ~executor_is_null(kb, i)
  /\ Len(Slot(ka, executor_row(ka, i))) # Len(Slot(kb, executor_row(kb, i)))

Keywords ==
  {"CREATE", "SET", "SCHEMA", "TABLE", "TO", "OR", "REPLACE", "TEMP",
   "TEMPORARY", "IF", "NOT", "EXISTS", "TRUE", "FALSE", "NULL"}

Idents == {"x", "y"}

Words == Keywords \cup Idents

\* What a parse function returns: Ok with a value, an error with its
\* message or a panic, and the parser's idx afterwards.
PRes(kind, val, idx) == [kind |-> kind, val |-> val, idx |-> idx]

\* Parser::next: the next token that is not whitespace, consumed.
RECURSIVE Parser_next(_, _)
Parser_next(toks, idx) ==
  IF idx >= Len(toks) THEN [some |-> FALSE, tok |-> "", idx |-> idx]
  ELSE IF At(toks, idx) = "Whitespace" THEN Parser_next(toks, idx + 1)
  ELSE [some |-> TRUE, tok |-> At(toks, idx), idx |-> idx + 1]

\* Parser::peek: the same token, idx unchanged.
Parser_peek(toks, idx) == [Parser_next(toks, idx) EXCEPT !.idx = idx]

\* Parser::consume_token
consume_token(toks, idx, expected) ==
  LET tok == Parser_peek(toks, idx)
  IN IF tok.some /\ tok.tok = expected
       THEN [ok |-> TRUE, idx |-> Parser_next(toks, idx).idx]
       ELSE [ok |-> FALSE, idx |-> idx]

\* Parser::parse_keyword
parse_keyword(toks, idx, keyword) ==
  LET tok == Parser_next(toks, idx)
  IN IF tok.some /\ tok.tok = keyword
       THEN [ok |-> TRUE, idx |-> tok.idx]
       ELSE [ok |-> FALSE, idx |-> idx]

\* Parser::parse_keyword_sequence, from the k-th keyword on, the parser
\* being at idx and having started at idx0.
RECURSIVE parse_keyword_sequence_from(_, _, _, _, _)
parse_keyword_sequence_from(toks, idx0, idx, keywords, k) ==
  IF k > Len(keywords) THEN [ok |-> TRUE, idx |-> idx]
  ELSE LET tok == Parser_next(toks, idx)
       IN IF tok.some /\ tok.tok = keywords[k]
            THEN parse_keyword_sequence_from(toks, idx0, tok.idx, keywords, k + 1)
            ELSE [ok |-> FALSE, idx |-> idx0]

parse_keyword_sequence(toks, idx, keywords) ==
  parse_keyword_sequence_from(toks, idx, idx, keywords, 1)

\* Parser::parse_one_of_keywords: at the end of the tokens the index stays
\* where next left it.
parse_one_of_keywords(toks, idx, keywords) ==
  LET tok == Parser_next(toks, idx)
  IN IF ~tok.some THEN [ok |-> FALSE, idx |-> tok.idx]
     ELSE IF tok.tok \in keywords THEN [ok |-> TRUE, idx |-> tok.idx]
     ELSE [ok |-> FALSE, idx |-> idx]

\* Parser::parse_object_reference: words separated by periods.
RECURSIVE parse_object_reference_from(_, _, _)
parse_object_reference_from(toks, idx, idents) ==
  LET tok == Parser_next(toks, idx)
  IN IF ~tok.some THEN PRes("Ok", idents, tok.idx)
     ELSE IF tok.tok \notin Words
       THEN PRes("Err", "Unexpected token. Expected an object reference.",
                 tok.idx)
     ELSE LET period == consume_token(toks, tok.idx, "Period")
          IN IF period.ok
               THEN parse_object_reference_from(toks, period.idx,
                                                Append(idents, tok.tok))
               ELSE PRes("Ok", Append(idents, tok.tok), period.idx)

parse_object_reference(toks, idx) == parse_object_reference_from(toks, idx, <<>>)

\* Parser::parse_prefix_expr
parse_prefix_expr(toks, idx) ==
  LET tok == Parser_next(toks, idx)
  IN IF ~tok.some
       THEN PRes("Err", "Unexpected end of statement. Expected expression.",
                 tok.idx)
     ELSE IF tok.tok \in {"TRUE", "FALSE", "NULL", "SingleQuotedString",
                          "Number"}
       THEN PRes("Ok", tok.tok, tok.idx)
     ELSE IF tok.tok \in Words
       THEN PRes("Panic", "not implemented", tok.idx)
       ELSE PRes("Err", "Unexpected token. Expected expression.", tok.idx)

\* Parser::parse_expr
parse_expr(toks, idx) == parse_prefix_expr(toks, idx)

\* Parser::parse_set
parse_set(toks, idx) ==
  LET name == parse_object_reference(toks, idx)
      to == parse_keyword(toks, name.idx, "TO")
      eq == consume_token(toks, to.idx, "Eq")
      expr == parse_expr(toks, IF to.ok THEN to.idx ELSE eq.idx)
  IN IF name.kind # "Ok" THEN name
     ELSE IF to.ok \/ eq.ok
       THEN (IF expr.kind # "Ok" THEN expr
             ELSE PRes("Ok", [stmt |-> "SetVariable", reference |-> name.val,
                              value |-> expr.val, if_not_exists |-> FALSE],
                       expr.idx))
       ELSE PRes("Err", "Expected SET name TO value or SET name = value",
                 eq.idx)

\* Parser::parse_create
parse_create(toks, idx) ==
  LET or_replace == parse_keyword_sequence(toks, idx, <<"OR", "REPLACE">>)
      temp == parse_one_of_keywords(toks, or_replace.idx, {"TEMP", "TEMPORARY"})
      table == parse_keyword(toks, temp.idx, "TABLE")
      schema == parse_keyword(toks, table.idx, "SCHEMA")
      if_not_exists ==
        parse_keyword_sequence(toks, schema.idx, <<"IF", "NOT", "EXISTS">>)
      reference == parse_object_reference(toks, if_not_exists.idx)
  IN IF table.ok THEN PRes("Panic", "not implemented", table.idx)
     ELSE IF ~schema.ok THEN PRes("Panic", "not implemented", schema.idx)
     ELSE IF or_replace.ok
       THEN PRes("Err", "OR REPLACE not supported when creating a schema",
                 schema.idx)
     ELSE IF temp.ok
       THEN PRes("Err", "TEMPORARY not supported when creating a schema",
                 schema.idx)
     ELSE IF reference.kind # "Ok" THEN reference
     ELSE PRes("Ok", [stmt |-> "CreateSchema", reference |-> reference.val,
                      value |-> "none", if_not_exists |-> if_not_exists.ok],
               reference.idx)

\* Parser::parse_statement
parse_statement(toks, idx) ==
  LET tok == Parser_next(toks, idx)
  IN IF ~tok.some THEN PRes("Err", "Empty SQL statement", tok.idx)
     ELSE IF tok.tok \notin Words
       THEN PRes("Err", "Expected a SQL statement", tok.idx)
     ELSE IF tok.tok \notin Keywords
       THEN PRes("Err", "Expected a keyword", tok.idx)
     ELSE IF tok.tok = "CREATE" THEN parse_create(toks, tok.idx)
     ELSE IF tok.tok = "SET" THEN parse_set(toks, tok.idx)
     ELSE PRes("Err", "Unexpected keyword", tok.idx)

\* The same loop leaving expect_delimiter as it was.
RECURSIVE consume_semicolons_keep(_, _, _)
consume_semicolons_keep(toks, idx, expect_delimiter) ==
  LET semi == consume_token(toks, idx, "SemiColon")
  IN IF semi.ok THEN consume_semicolons_keep(toks, semi.idx, expect_delimiter)
     ELSE [idx |-> idx, expect_delimiter |-> expect_delimiter]

\* `while self.consume_token(Token::SemiColon) { expect_delimiter = false }`
RECURSIVE consume_semicolons(_, _, _)
consume_semicolons(toks, idx, expect_delimiter) ==
  LET semi == consume_token(toks, idx, "SemiColon")
  IN IF semi.ok THEN consume_semicolons(toks, semi.idx, FALSE)
     ELSE [idx |-> idx, expect_delimiter |-> expect_delimiter]

\* The loop of Parser::parse_statements from idx on, `stmts` holding the
\* statements parsed so far.  Next to the parser's result the record keeps
\* the span of tokens each statement was parsed from: where
\* parse_statement was called and where it left the index.
RECURSIVE parse_statements_from(_, _, _, _, _)
parse_statements_from(toks, idx, stmts, spans, expect_delimiter) ==
  LET semis == consume_semicolons(toks, idx, expect_delimiter)
      stmt == parse_statement(toks, semis.idx)
      done(kind, val, at) ==
        [stage |-> "done", toks |-> toks, idx |-> at, kind |-> kind,
         val |-> val, spans |-> spans]
  IN IF ~Parser_peek(toks, semis.idx).some
       THEN done("Ok", stmts, semis.idx)
     ELSE IF semis.expect_delimiter
       THEN done("Err", "Expected semicolon between statements", semis.idx)
     ELSE IF stmt.kind # "Ok" THEN done(stmt.kind, stmt.val, stmt.idx)
     ELSE parse_statements_from(toks, stmt.idx, Append(stmts, stmt.val),
                                Append(spans, <<semis.idx, stmt.idx>>), TRUE)

\* Parser::parse_statements
parse_statements(toks, idx) == parse_statements_from(toks, idx, <<>>, <<>>, FALSE)

(* ---------------------------- parser actions --------------------------- *)
\* The most pieces an input is put together from.
MaxChunks == 4

\* Pieces of input: a semicolon, whitespace, three statements, a stray
\* identifier and a CREATE on its own.
Chunks ==
  {<<"SemiColon">>, <<"Whitespace">>,
   <<"CREATE", "SCHEMA", "x", "Period", "y">>,
   <<"SET", "x", "Eq", "Number">>,
   <<"SET", "Whitespace", "y", "TO", "NULL">>,
   <<"y">>, <<"CREATE">>}

RECURSIVE Concat(_)
Concat(chunks) ==
  IF chunks = <<>> THEN <<>> ELSE Head(chunks) \o Concat(Tail(chunks))

\* Parser::with_tokens
WithTokens ==
  \E chunks \in SeqsUpTo(Chunks, MaxChunks) :
    /\ parser.stage = "new"
    /\ parser' = [stage |-> "ready", toks |-> Concat(chunks), idx |-> 0]
    /\ UNCHANGED <<scope, bind>>
    /\ UNCHANGED runtimeVars

\* Parser::parse_statements
ParseStatements ==
  /\ parser.stage = "ready"
  /\ parser' = parse_statements(parser.toks, parser.idx)
  /\ UNCHANGED <<scope, bind>>
  /\ UNCHANGED runtimeVars

\* The parser is dropped with its result.
ParserDrop ==
  /\ parser.stage = "done"
  /\ parser' = [stage |-> "new"]
  /\ UNCHANGED <<scope, bind>>
  /\ UNCHANGED runtimeVars

NextParser ==
  \/ WithTokens
  \/ ParseStatements
  \/ ParserDrop

SpecParser == Init /\ [][NextParser]_vars

(* --------------------------- parser properties ------------------------- *)
\* Tokens that belong to no statement.
Delimiting == {"SemiColon", "Whitespace"}

\* The tokens at from..(to - 1) only delimit, and one of them at least is a
\* semicolon when `semi` asks for it.
OnlyDelimiters(toks, from, to, semi) ==
  /\ \A i \in from..(to - 1) : At(toks, i) \in Delimiting
  /\ semi => \E i \in from..(to - 1) : At(toks, i) = "SemiColon"

\* Where the last statement parsed ended, 0 when there is none.
LastEnd(spans) == IF spans = <<>> THEN 0 ELSE spans[Len(spans)][2]

\* C24: parse_statements returns the empty list for an input of nothing but
\* semicolons and whitespace (the empty input included); when it returns
\* statements, they are the statements parsed from successive spans of the
\* input, in source order, with at least one semicolon between two of them
\* and nothing but semicolons and whitespace around them; whenever a
\* statement it parsed is followed by a token other than whitespace with no
\* semicolon between, it returns 'Expected semicolon between statements';
\* and it returns that error in no other case: any other error is the
\* error of the statement that starts after the delimiters.
C24_ParseStatements ==
  parser.stage = "done" =>
    LET toks == parser.toks
        spans == parser.spans
        n == Len(spans)
        expected == "Expected semicolon between statements"
    IN /\ (\A k \in 1..Len(toks) : toks[k] \in Delimiting) =>
            (parser.kind = "Ok" /\ parser.val = <<>>)
       /\ parser.kind = "Ok" =>
            /\ Len(parser.val) = n
            /\ \A k \in 1..n :
                 /\ parse_statement(toks, spans[k][1]).kind = "Ok"
                 /\ parser.val[k] = parse_statement(toks, spans[k][1]).val
                 /\ spans[k][2] = parse_statement(toks, spans[k][1]).idx
            /\ \A k \in 1..(n - 1) :
                 OnlyDelimiters(toks, spans[k][2], spans[k + 1][1], TRUE)
            /\ n > 0 => OnlyDelimiters(toks, 0, spans[1][1], FALSE)
            /\ OnlyDelimiters(toks, LastEnd(spans), Len(toks), FALSE)
       /\ \A k \in 1..n :
            (/\ Parser_peek(toks, spans[k][2]).some
             /\ Parser_peek(toks, spans[k][2]).tok # "SemiColon") =>
              (parser.kind = "Err" /\ parser.val = expected)
       /\ (parser.kind = "Err" /\ parser.val = expected) =>
            /\ n > 0
            /\ Parser_peek(toks, LastEnd(spans)).some
            /\ Parser_peek(toks, LastEnd(spans)).tok # "SemiColon"
       /\ (parser.kind = "Err" /\ parser.val # expected) =>
            \E at \in LastEnd(spans)..Len(toks) :
              /\ OnlyDelimiters(toks, LastEnd(spans), at, n > 0)
              /\ parse_statement(toks, at).kind = "Err"
              /\ parse_statement(toks, at).val = parser.val

\* Two statements came back in source order from an input that starts
\* with a semicolon.
C24_Witness ==
  /\ parser.stage = "done"
  /\ parser.kind = "Ok"
  /\ Len(parser.val) = 2
  /\ parser.toks[1] = "SemiColon"
  /\ parser.val[1].stmt = "CreateSchema"
  /\ parser.val[2].stmt = "SetVariable"
  /\ parser.spans[1][2] <= parser.spans[2][1]

\* A statement followed by a second one with no semicolon between ended in
\* the error.
C24_WitnessMissingSemicolon ==
  /\ parser.stage = "done"
  /\ parser.kind = "Err"
  /\ parser.val = "Expected semicolon between statements"
  /\ Len(parser.spans) = 1

(* ==================== scopes (planner/scope.rs) ======================== *)
\* TableReference { database, schema, table }
TableReference(database, schema, table) ==
  [database |-> database, schema |-> schema, table |-> table]

\* ScopeColumn { alias, column }
ScopeColumn(alias, column) == [alias |-> alias, column |-> column]

\* TableReference::matches: a database or schema given on both sides must
\* agree; the table names must be equal.
TableReference_matches(self, other) ==
  IF self.database.some /\ other.database.some
       /\ self.database.v # other.database.v
    THEN FALSE
  ELSE IF self.schema.some /\ other.schema.some
            /\ self.schema.v # other.schema.v
    THEN FALSE
  ELSE self.table = other.table

\* The closure `pred` of Scope::column_index.
column_index_pred(alias, column, item) ==
  IF alias.some /\ item.alias.some
    THEN TableReference_matches(alias.v, item.alias.v) /\ item.column = column
  ELSE IF alias.some THEN FALSE
  ELSE item.column = column

\* Iterator::position: the index of the first item from `from` on that
\* satisfies pred, Len(items) when there is none.
RECURSIVE position(_, _, _, _)
position(items, alias, column, from) ==
  IF from >= Len(items) THEN Len(items)
  ELSE IF column_index_pred(alias, column, At(items, from)) THEN from
  ELSE position(items, alias, column, from + 1)

\* column_index without the look at the rest of the items.
column_index_first(items, alias, column) ==
  LET idx == position(items, alias, column, 0)
  IN IF idx = Len(items) THEN Ok(None) ELSE Ok(Some(idx))

\* Scope::column_index: the first matching item, an error when a later
\* item matches too.
column_index(items, alias, column) ==
  LET idx == position(items, alias, column, 0)
  IN IF idx = Len(items) THEN Ok(None)
     ELSE IF position(items, alias, column, idx + 1) < Len(items)
       THEN Err("Ambiguous column name")
       ELSE Ok(Some(idx))

\* ColumnRef { scope_level, item_idx }
ColumnRef(scope_level, item_idx) ==
  [scope_level |-> scope_level, item_idx |-> item_idx]

\* The loop of Scope::resolve_column over the outer scopes from
\* scope_level on.
RECURSIVE resolve_column_outer(_, _, _, _)
resolve_column_outer(outer, table, column, scope_level) ==
  IF scope_level >= Len(outer) THEN Ok(None)
  ELSE LET idx == column_index(At(outer, scope_level), table, column)
       IN IF idx.kind = "Err" THEN idx
          ELSE IF idx.val.some
            THEN Ok(Some(ColumnRef(scope_level + 1, idx.val.v)))
            ELSE resolve_column_outer(outer, table, column, scope_level + 1)

\* Scope::resolve_column
resolve_column(items, outer, table, column) ==
  LET idx == column_index(items, table, column)
  IN IF idx.kind = "Err" THEN idx
     ELSE IF idx.val.some THEN Ok(Some(ColumnRef(0, idx.val.v)))
     ELSE resolve_column_outer(outer, table, column, 0)

(* ----------------------------- scope actions --------------------------- *)
\* The most outer scopes around a scope.
MaxOuter == 2

\* Aliases of the tables in scope: t in database d1, t in database d2, and
\* t in schema s1.
T_d1 == TableReference(Some("d1"), None, "t")
T_d2 == TableReference(Some("d2"), None, "t")
T_s1 == TableReference(None, Some("s1"), "t")

\* The scopes: empty; a column of a USING constraint; a table with the
\* column second; two tables with the column; a table in a schema; a table
\* listing the column twice; a table without the column.
Scopes ==
  {<<>>,
   <<ScopeColumn(None, "a")>>,
   <<ScopeColumn(Some(T_d1), "b"), ScopeColumn(Some(T_d1), "a")>>,
   <<ScopeColumn(Some(T_d1), "a"), ScopeColumn(Some(T_d2), "a")>>,
   <<ScopeColumn(Some(T_s1), "a")>>,
   <<ScopeColumn(Some(T_d2), "a"), ScopeColumn(Some(T_d2), "b"),
     ScopeColumn(Some(T_d2), "a")>>,
   <<ScopeColumn(Some(T_d1), "b")>>}

\* The table part of a column reference: none, t, d1.t, and s2.t.
TableQueries ==
  {None, Some(TableReference(None, None, "t")), Some(T_d1),
   Some(TableReference(None, Some("s2"), "t"))}

\* Scope::resolve_column for column a.
ResolveColumn ==
  \E items \in Scopes, outer \in SeqsUpTo(Scopes, MaxOuter),
     table \in TableQueries :
    /\ scope.stage = "new"
    /\ scope' = [stage |-> "done", items |-> items, outer |-> outer,
                 table |-> table, column |-> "a",
                 out |-> resolve_column(items, outer, table, "a")]
    /\ UNCHANGED <<parser, bind>>
    /\ UNCHANGED runtimeVars

\* The caller takes the result.
ScopeReturn ==
  /\ scope.stage = "done"
  /\ scope' = [stage |-> "new"]
  /\ UNCHANGED <<parser, bind>>
  /\ UNCHANGED runtimeVars

NextScope ==
  \/ ResolveColumn
  \/ ScopeReturn

SpecScope == Init /\ [][NextScope]_vars

(* ---------------------------- scope properties ------------------------- *)
\* The indices of the items of a scope that match the reference.
Matching(items, table, column) ==
  {i \in 0..(Len(items) - 1) : column_index_pred(table, column, At(items, i))}

\* The scopes in search order: the current one, then the outer ones from
\* left to right.
SearchOrder == <<scope.items>> \o scope.outer

\* The levels, in search order, of the scopes that hold a match.
MatchingLevels ==
  {k \in 0..(Len(SearchOrder) - 1) :
     Matching(At(SearchOrder, k), scope.table, scope.column) # {}}

\* C25: resolve_column answers from the first scope, in the order current
\* scope then outer scopes left to right, that holds a matching column:
\* None when no scope does; the 'Ambiguous column name' error when that
\* first scope holds more than one match; otherwise the level of that scope
\* (0 for the current scope, k + 1 for the outer scope at position k) with
\* the index of its only match.  The scopes after it have no say.
C25_ResolveColumn ==
  scope.stage = "done" =>
    IF MatchingLevels = {} THEN scope.out = Ok(None)
    ELSE LET first == CHOOSE k \in MatchingLevels :
                        \A j \in MatchingLevels : k <= j
             found == Matching(At(SearchOrder, first), scope.table,
                               scope.column)
         IN IF Cardinality(found) > 1
              THEN scope.out = Err("Ambiguous column name")
              ELSE \E i \in found : scope.out = Ok(Some(ColumnRef(first, i)))

\* A column was resolved in the second outer scope, at index 1, past a
\* current and a first outer scope without a match.
C25_Witness ==
  /\ scope.stage = "done"
  /\ Len(scope.outer) = 2
  /\ scope.out = Ok(Some(ColumnRef(2, 1)))

(* ======================= binder (sql/binder.rs) ======================== *)
\* BoundCte { name, depth, .. }.  `owner` is not a field of the program: it
\* names the query whose WITH clause declares the CTE.
BoundCte(name, depth, owner) == [name |-> name, depth |-> depth, owner |-> owner]

\* The loop of BindData::find_cte over the CTEs right to left, idx counting
\* the CTEs already passed.
RECURSIVE find_cte_from(_, _, _, _)
find_cte_from(ctes, name, search_depth, idx) ==
  IF idx >= Len(ctes) THEN None
  ELSE LET cte == At(ctes, (Len(ctes) - 1) - idx)
       IN IF cte.depth > search_depth THEN None
          ELSE IF cte.name = name THEN Some((Len(ctes) - 1) - idx)
          ELSE find_cte_from(ctes, name, cte.depth, idx + 1)

\* BindData::find_cte
find_cte(current_depth, ctes, name) == find_cte_from(ctes, name, current_depth, 0)

\* inc_depth without the increment.
inc_depth_skip(current_depth) == current_depth

\* BindData::inc_depth
inc_depth(current_depth) == current_depth + 1

\* BindData::dec_depth: `current_depth -= 1` on a usize.  At 0 the
\* subtraction underflows: a panic with overflow checks, usize::MAX without.
dec_depth(current_depth) ==
  IF current_depth = 0 THEN [underflow |-> TRUE, current_depth |-> 0]
  ELSE [underflow |-> FALSE, current_depth |-> current_depth - 1]

\* BindData::push_cte: the CTE is appended and its index returned.
push_cte(ctes, cte) == [ctes |-> Append(ctes, cte), idx |-> Len(ctes)]

(* ----------------------------- binder actions -------------------------- *)
\* The most calls of bind_query while one statement is bound, and the most
\* CTEs it declares.
MaxQueries == 5
MaxCtes == 2

\* Normalized CTE names.
CteNames == {"c", "e"}

\* The calls in progress, innermost last.  A call of bind_query remembers
\* the depth it was entered at and whether it has reached the body of its
\* query; an iteration of the loop of bind_ctes remembers the name it
\* declares, the depth it read and whether the body of the CTE is bound.
QueryFrame(id, before) ==
  [kind |-> "query", id |-> id, before |-> before, in_body |-> FALSE,
   name |-> "", depth |-> 0, bound |-> FALSE]

CteFrame(id, name, depth) ==
  [kind |-> "cte", id |-> id, before |-> 0, in_body |-> FALSE,
   name |-> name, depth |-> depth, bound |-> FALSE]

Top(stack) == stack[Len(stack)]

Pop(stack) == SubSeq(stack, 1, Len(stack) - 1)

\* The binder is at a point of a query where statements of the query are
\* bound.
InQuery ==
  /\ bind.stage = "binding"
  /\ ~bind.unwinding
  /\ bind.stack # <<>>
  /\ Top(bind.stack).kind = "query"

\* What every step resets: the reference find_cte returned, the depths
\* around the call of bind_query that returned, the reference push_cte
\* returned.
Step(b) == [b EXCEPT !.found = None, !.returned = None, !.pushed = None]

\* Binder::bind_statement: BindData::default().
BindStatement ==
  /\ bind.stage = "new"
  /\ bind' = [stage |-> "binding", current_depth |-> 0, ctes |-> <<>>,
              stack |-> <<>>, queries |-> 0, unwinding |-> FALSE,
              found |-> None, returned |-> None, pushed |-> None]
  /\ UNCHANGED <<parser, scope>>
  /\ UNCHANGED runtimeVars

\* Binder::bind_query is called, for the query of the statement, for a
\* subquery in the body of a query or for the body of a CTE: inc_depth.
BindQueryEnter ==
  /\ bind.stage = "binding"
  /\ ~bind.unwinding
  /\ bind.queries < MaxQueries
  /\ \/ bind.stack = <<>> /\ bind.queries = 0
     \/ bind.stack # <<>> /\ Top(bind.stack).kind = "query"
     \/ bind.stack # <<>> /\ Top(bind.stack).kind = "cte" /\ ~Top(bind.stack).bound
  /\ LET outer == IF bind.stack # <<>> /\ Top(bind.stack).kind = "query"
                    THEN [bind.stack EXCEPT ![Len(bind.stack)].in_body = TRUE]
                    ELSE bind.stack
     IN bind' = [Step(bind) EXCEPT
                   !.current_depth = inc_depth(bind.current_depth),
                   !.stack = Append(outer, QueryFrame(bind.queries,
                                                      bind.current_depth)),
                   !.queries = bind.queries + 1]
  /\ UNCHANGED <<parser, scope>>
  /\ UNCHANGED runtimeVars

\* An iteration of the loop of Binder::bind_ctes starts:
\* `let depth = bind_data.current_depth`.  The WITH clause of a query is
\* bound before its body.
BindCtesNext ==
  \E name \in CteNames :
    /\ InQuery
    /\ ~Top(bind.stack).in_body
    /\ Len(bind.ctes)
         + Cardinality({k \in 1..Len(bind.stack) : bind.stack[k].kind = "cte"})
         < MaxCtes
    /\ bind' = [Step(bind) EXCEPT
                  !.stack = Append(bind.stack,
                                   CteFrame(Top(bind.stack).id, name,
                                            bind.current_depth))]
    /\ UNCHANGED <<parser, scope>>
    /\ UNCHANGED runtimeVars

\* The iteration ends: the body of the CTE is bound, and push_cte appends
\* the CTE with the depth read before.
BindCtesPush ==
  /\ bind.stage = "binding"
  /\ ~bind.unwinding
  /\ bind.stack # <<>>
  /\ Top(bind.stack).kind = "cte"
  /\ Top(bind.stack).bound
  /\ LET frame == Top(bind.stack)
         r == push_cte(bind.ctes, BoundCte(frame.name, frame.depth, frame.id))
     IN bind' = [Step(bind) EXCEPT
                   !.ctes = r.ctes,
                   !.stack = Pop(bind.stack),
                   !.pushed = Some([idx |-> r.idx, name |-> frame.name])]
  /\ UNCHANGED <<parser, scope>>
  /\ UNCHANGED runtimeVars

\* Binder::resolve_table_or_cte in the body of a query: find_cte.
FindCte ==
  \E name \in CteNames :
    /\ InQuery
    /\ bind' = [Step(bind) EXCEPT
                  !.stack[Len(bind.stack)].in_body = TRUE,
                  !.found = Some([name |-> name,
                                  out |-> find_cte(bind.current_depth,
                                                   bind.ctes, name)])]
    /\ UNCHANGED <<parser, scope>>
    /\ UNCHANGED runtimeVars

\* The end of a call of bind_query with the result of bind_query_inner:
\* dec_depth, then the result is returned.  With the last call the
\* statement is bound, or has failed.
bind_query_return(result) ==
  LET frame == Top(bind.stack)
      rest == Pop(bind.stack)
      dec == dec_depth(bind.current_depth)
      stage == IF dec.underflow THEN "underflow"
               ELSE IF rest # <<>> THEN "binding"
               ELSE IF result = "Ok" THEN "bound" ELSE "failed"
  IN [Step(bind) EXCEPT
        !.stage = stage,
        !.current_depth = dec.current_depth,
        !.stack = IF rest # <<>> /\ Top(rest).kind = "cte" /\ result = "Ok"
                    THEN [rest EXCEPT ![Len(rest)].bound = TRUE]
                    ELSE rest,
        !.unwinding = (result = "Err"),
        !.returned = Some([before |-> frame.before,
                           after |-> dec.current_depth,
                           result |-> result])]

\* bind_query_inner returns Ok.
BindQueryOk ==
  /\ InQuery
  /\ bind' = bind_query_return("Ok")
  /\ UNCHANGED <<parser, scope>>
  /\ UNCHANGED runtimeVars

\* bind_query_inner returns Err: an error of its own, or the error of a
\* call inside it handed on by `?`.
BindQueryErr ==
  /\ bind.stage = "binding"
  /\ bind.stack # <<>>
  /\ Top(bind.stack).kind = "query"
  /\ bind' = bind_query_return("Err")
  /\ UNCHANGED <<parser, scope>>
  /\ UNCHANGED runtimeVars

\* bind_ctes hands on the error of binding the body of a CTE; nothing is
\* pushed.
BindCtesErr ==
  /\ bind.stage = "binding"
  /\ bind.unwinding
  /\ bind.stack # <<>>
  /\ Top(bind.stack).kind = "cte"
  /\ bind' = [Step(bind) EXCEPT !.stack = Pop(bind.stack), !.unwinding = TRUE]
  /\ UNCHANGED <<parser, scope>>
  /\ UNCHANGED runtimeVars

\* bind_statement returns; the bind data goes with it.
BindReturn ==
  /\ bind.stage \in {"bound", "failed", "underflow"}
  /\ bind' = [stage |-> "new"]
  /\ UNCHANGED <<parser, scope>>
  /\ UNCHANGED runtimeVars

NextBind ==
  \/ BindStatement
  \/ BindQueryEnter
  \/ BindCtesNext
  \/ BindCtesPush
  \/ FindCte
  \/ BindQueryOk
  \/ BindQueryErr
  \/ BindCtesErr
  \/ BindReturn

SpecBind == Init /\ [][NextBind]_vars

(* ---------------------------- binder properties ------------------------ *)
\* The queries being bound: the one at the top of the stack and the ones
\* that enclose it.
Enclosing ==
  {bind.stack[k].id : k \in {j \in 1..Len(bind.stack) : bind.stack[j].kind = "query"}}

\* The indices of the CTEs of that name declared by a query being bound.
InScope(name) ==
  {i \in 0..(Len(bind.ctes) - 1) :
     At(bind.ctes, i).name = name /\ At(bind.ctes, i).owner \in Enclosing}

\* find_cte has returned.
Found == bind.stage = "binding" /\ bind.found.some

\* C26: find_cte never resolves a name to the CTE of a subquery that has
\* been left: the CTE it returns is declared by the query being bound or
\* by a query enclosing it, and it returns one whenever such a CTE of that
\* name exists.
C26_NeverSiblingCte ==
  Found =>
    /\ bind.found.v.out.some =>
         bind.found.v.out.v \in InScope(bind.found.v.name)
    /\ InScope(bind.found.v.name) # {} => bind.found.v.out.some

\* The query being bound declares no CTE of the name, its parent declares
\* one, a subquery of the parent that has been left declared another, and
\* find_cte returned the one of the subquery.
C26_SiblingOverParent ==
  /\ Found
  /\ bind.found.v.out.some
  /\ InScope(bind.found.v.name) # {}
  /\ bind.found.v.out.v \notin InScope(bind.found.v.name)
  /\ At(bind.ctes, bind.found.v.out.v).depth = bind.current_depth

\* The depth of the query a call of bind_query binds.
QueryDepth(frame) == frame.before + 1

\* The calls of bind_query in progress.
QueryFrames == {k \in 1..Len(bind.stack) : bind.stack[k].kind = "query"}

\* While a statement is bound: current_depth counts the calls of
\* bind_query in progress and has not underflowed; the call that has just
\* returned, with Ok or with Err, left current_depth as it found it; a
\* loop iteration of bind_ctes holds, and every CTE pushed records, the
\* depth of the query that declares it; the reference push_cte has just
\* returned names the CTE pushed.
DepthBalanced ==
  /\ bind.stage # "underflow"
  /\ bind.stage \in {"binding", "bound", "failed"} =>
       /\ bind.current_depth = Cardinality(QueryFrames)
       /\ bind.returned.some =>
            bind.returned.v.after = bind.returned.v.before
       /\ \A k \in 1..Len(bind.stack) :
            bind.stack[k].kind = "cte" =>
              \E q \in QueryFrames :
                /\ q < k
                /\ bind.stack[q].id = bind.stack[k].id
                /\ bind.stack[k].depth = QueryDepth(bind.stack[q])
       /\ bind.pushed.some =>
            /\ bind.pushed.v.idx < Len(bind.ctes)
            /\ At(bind.ctes, bind.pushed.v.idx).name = bind.pushed.v.name

\* A step of the binder leaves every CTE where it is: the vector is only
\* appended to, by one CTE at most, which records the depth of its query.
CtesAppendOnly ==
  (bind.stage = "binding" /\ bind'.stage # "new") =>
    /\ Len(bind'.ctes) \in {Len(bind.ctes), Len(bind.ctes) + 1}
    /\ SubSeq(bind'.ctes, 1, Len(bind.ctes)) = bind.ctes
    /\ Len(bind'.ctes) > Len(bind.ctes) =>
         /\ bind.stack # <<>>
         /\ \E q \in QueryFrames :
              /\ bind.stack[q].id = bind'.ctes[Len(bind'.ctes)].owner
              /\ bind'.ctes[Len(bind'.ctes)].depth = QueryDepth(bind.stack[q])

\* C30: every call of bind_query, whether bind_query_inner returns Ok or
\* Err, leaves current_depth as it was before the call; current_depth
\* never underflows; every CTE pushed records the depth of the query that
\* declares it; the references push_cte returns stay valid, the vector of
\* CTEs only ever being appended to.
C30_DepthBalanced == [](DepthBalanced) /\ [][CtesAppendOnly]_vars

\* A call of bind_query for a subquery two levels down returned Err after
\* a CTE was pushed, and left the depth as it found it.
C30_Witness ==
  /\ bind.stage = "binding"
  /\ bind.returned.some
  /\ bind.returned.v.result = "Err"
  /\ bind.returned.v.before = 2
  /\ bind.current_depth = 2
  /\ Len(bind.ctes) > 0

(* ------------------- planning against execution ------------------------ *)
\* A planned arithmetic function has been executed.
HasExecuted(fn) == kplan.stage = "done" /\ kplan.ok /\ kplan.fn = fn

\* The two ways execute gives up on the arrays it is handed: the panic of
\* the fall-through arm in arith.rs, the error of the fall-through arm in
\* arith/div.rs.
NoArm == {"unexpected array type", "unhandled physical types"}

\* C27: executing Add, Sub, Mul, Div or Rem on two arrays of a pair of
\* datatypes its plan_from_datatypes accepted never ends in the fall-through
\* arm of execute.
C27_PlannedPairsExecute ==
  \A fn \in {"Add", "Sub", "Mul", "arith::Div", "Div", "Rem"} :
    HasExecuted(fn) => kout.msg \notin NoArm

(* --------------------- signatures against planning --------------------- *)
\* Signature { input, variadic: None, return_type }
Signature(input, return_type) == [input |-> input, return_type |-> return_type]

\* PRIMITIVE_ARITH_SIGNATURES, the signatures() of Add, Sub, Mul, Div and
\* Rem of arith.rs.
PRIMITIVE_ARITH_SIGNATURES ==
  {Signature(<<t, t>>, t) :
     t \in {"Float32", "Float64", "Int8", "Int16", "Int32", "Int64",
            "UInt8", "UInt16", "UInt32", "UInt64", "Decimal64"}}
    \cup {Signature(<<"Date32", "Int64">>, "Date32"),
          Signature(<<"Interval", "Int64">>, "Interval")}

\* Div::signatures of arith/div.rs.
Div_signatures ==
  {Signature(<<t, t>>, t) :
     t \in {"Float32", "Float64", "Int8", "Int16", "Int32", "Int64",
            "UInt8", "UInt16", "UInt32", "UInt64"}}
    \cup {Signature(<<"Date32", "Int64">>, "Date32"),
          Signature(<<"Interval", "Int64">>, "Interval"),
          Signature(<<"Decimal64", "Decimal64">>, "Float64"),
          Signature(<<"Decimal128", "Decimal128">>, "Float64")}

\* FunctionInfo::signatures
signatures(fn) ==
  IF fn = "Div" THEN Div_signatures ELSE PRIMITIVE_ARITH_SIGNATURES

\* The arithmetic functions planned from a list of inputs.
ArithPlanFns == PlanFns \ LengthFns

\* C28: for Add, Sub, Mul, Div and Rem of arith.rs and Div of arith/div.rs,
\* inputs of the datatypes of a declared signature are planned, with the
\* return type of the signature, and inputs that are planned are those of
\* a declared signature.
C28_SignaturesAgree ==
  (PlannedFromInputs /\ kplan.fn \in ArithPlanFns) =>
    /\ \A sig \in signatures(kplan.fn) :
         sig.input = kplan.inputs =>
           (kplan.ok /\ kplan.datatype = sig.return_type)
    /\ kplan.ok => \E sig \in signatures(kplan.fn) : sig.input = kplan.inputs

(* ============================ array equality =========================== *)
\* impl Clone for Array: the legacy fields, and no `next`.
Array_clone(a) == [a EXCEPT !.next = NoNext]

\* impl PartialEq for Array: datatype, selection2, validity2 and data2.
Array_eq(a, b) ==
  /\ a.datatype = b.datatype
  /\ a.selection2 = b.selection2
  /\ a.validity2 = b.validity2
  /\ a.data2 = b.data2

\* Value lists the compared arrays are built from.
CmpVals == {<<>>, <<1>>, <<1, 0>>, <<0, 1>>}
CmpOptVals ==
  {<<Some(1)>>, <<[some |-> FALSE, v |-> 0]>>,
   <<Some(1), [some |-> FALSE, v |-> 0]>>}
CmpTypes == {"Int32", "Int64"}
CmpSels == {<<0>>, <<1, 0>>}

\* The next array to build is the left one, then the right one.
CmpSide == IF kplan.stage = "idle" THEN "left" ELSE "right"
CmpBuilding == kplan.stage \in {"idle", "left"}
CmpBuilt(a) ==
  /\ CmpBuilding
  /\ ka' = IF CmpSide = "left" THEN a ELSE ka
  /\ kb' = IF CmpSide = "left" THEN kb ELSE a
  /\ kplan' = [NoPlan EXCEPT !.stage = IF CmpSide = "left" THEN "left" ELSE "built",
                             !.fn = "eq"]
  /\ kout' = NoOut
  /\ UNCHANGED arrayVars

\* Array::from_iter
CmpFromIter ==
  \E t \in CmpTypes, vals \in CmpVals : CmpBuilt(from_iter(t, vals))

\* Array::from_iter over Option values
CmpFromIterOpt ==
  \E t \in CmpTypes, ovals \in CmpOptVals : CmpBuilt(from_iter_opt(t, ovals))

\* Array::from_iter, then select_mut2
CmpFromIterSelect ==
  \E t \in CmpTypes, vals \in CmpVals \ {<<>>}, sel \in CmpSels :
    CmpBuilt(select_mut2(from_iter(t, vals), sel))

\* Array::try_from_iter
CmpTryFromIter ==
  \E t \in CmpTypes, vals \in CmpVals : CmpBuilt(try_from_iter(t, vals))

\* Array::try_from_iter over Option values
CmpTryFromIterOpt ==
  \E t \in CmpTypes, ovals \in CmpOptVals :
    CmpBuilt(try_from_iter_opt(t, ovals))

\* Array::try_new
CmpTryNew ==
  \E t \in CmpTypes, cap \in 0..2 : CmpBuilt(try_new(t, cap))

\* The right array is a clone of the left one.
CmpClone ==
  /\ kplan.stage = "left"
  /\ kb' = Array_clone(ka)
  /\ kplan' = [kplan EXCEPT !.stage = "built", !.fn = "clone"]
  /\ kout' = NoOut
  /\ UNCHANGED ka
  /\ UNCHANGED arrayVars

\* a == b
CmpEq ==
  /\ kplan.stage = "built"
  /\ kout' = [kind |-> "Ok",
              msg |-> IF Array_eq(ka, kb) THEN "true" ELSE "false",
              out |-> Unbuilt]
  /\ kplan' = [kplan EXCEPT !.stage = "done"]
  /\ UNCHANGED <<ka, kb>>
  /\ UNCHANGED arrayVars

\* Two arrays are built and compared.
NextCmp ==
  \/ CmpFromIter
  \/ CmpFromIterOpt
  \/ CmpFromIterSelect
  \/ CmpTryFromIter
  \/ CmpTryFromIterOpt
  \/ CmpTryNew
  \/ CmpClone
  \/ CmpEq
  \/ KernelReturn

SpecCmp == Init /\ [][NextCmp]_vars

\* The logical length of an array: the capacity of `next` where the data
\* lives there, else the legacy logical_len.
RowCount(a) == IF a.next.some THEN capacity(a) ELSE logical_len(a)

\* The value and the validity of logical row i: read from the validity and
\* the primary buffer of `next` where the data lives there, else through
\* logical_value and is_valid.
RowOf(a, i) ==
  IF a.next.some
    THEN LET valid == At(a.next.v.validity, i)
         IN [value |-> IF valid
                         THEN Ok(Scalar(a.datatype, At(a.next.v.data.primary, i)))
                         ELSE Ok(ScalarNull),
             valid |-> [kind |-> "Some",
                        val |-> Scalar("bool", IF valid THEN 1 ELSE 0)]]
    ELSE [value |-> logical_value(a, i), valid |-> is_valid(a, i)]

SameRows(a, b) ==
  /\ RowCount(a) = RowCount(b)
  /\ \A i \in 0..(RowCount(a) - 1) : RowOf(a, i) = RowOf(b, i)

Compared == kplan.stage = "done" /\ kplan.fn \in {"eq", "clone"}

\* C29: two arrays that compare equal have the same logical length, and
\* every logical row of one holds the value and the validity of the same
\* row of the other, for arrays of the legacy layout and for arrays built
\* by try_new and try_from_iter.
C29_EqualArraysSameRows ==
  (Compared /\ kout.msg = "true") => SameRows(ka, kb)

====
